---- MODULE Spec2Model ----
(***************************************************************************)
(* Wakeify alarm playback: the wake-and-play orchestrator                  *)
(* (src/playback/alarm_playback/orchestrator.py) and the playback helpers  *)
(* (src/playback/alarm_playback/playback.py).                              *)
(*                                                                         *)
(* Names are sequences of one-character strings so that lower() and        *)
(* strip() are computed, not assumed.  Time is counted in ticks of 100 ms  *)
(* and is read relative to the moment the current deadline was set, which  *)
(* is all the deadline loops compare.                                      *)
(***************************************************************************)
EXTENDS Integers, Sequences, FiniteSets, TLC

VARIABLES
    registry,          \* self._registry: profile name -> DeviceProfile
    circuit_breakers,  \* self.circuit_breakers: name -> CircuitBreakerState
    run,               \* per thread: the locals of its play_alarm call
    alarms,            \* the targets the scheduler fires alarms for
    pk                 \* inputs and result of a stand-alone _pick_device call

vars == <<registry, circuit_breakers, run, alarms, pk>>

(***************************************************************************)
(* Names                                                                   *)
(***************************************************************************)
MaxNameLen == 2
MaxDevices == 2

Alphabet == {"k", "K", " "}

RECURSIVE SeqsUpTo(_, _)
SeqsUpTo(S, n) ==
    IF n = 0 THEN {<<>>}
    ELSE LET shorter == SeqsUpTo(S, n - 1)
         IN shorter \cup {Append(s, c) : s \in {x \in shorter : Len(x) = n - 1}, c \in S}

Names == SeqsUpTo(Alphabet, MaxNameLen)

\* str.lower() on one character
LowerChar(c) == IF c = "K" THEN "k" ELSE IF c = "X" THEN "x" ELSE c

\* str.lower()
lower(s) == [i \in 1..Len(s) |-> LowerChar(s[i])]

RECURSIVE lstrip(_)
lstrip(s) == IF s /= <<>> /\ Head(s) = " " THEN lstrip(Tail(s)) ELSE s

RECURSIVE rstrip(_)
rstrip(s) == IF s /= <<>> /\ s[Len(s)] = " " THEN rstrip(SubSeq(s, 1, Len(s) - 1)) ELSE s

\* str.strip()
strip(s) == rstrip(lstrip(s))

\* name.lower().strip()
Normalize(name) == strip(lower(name))

\* identity instead of lower().strip(): a case- and space-sensitive comparison
Normalize_verbatim(name) == name

\* b occurs in a as a contiguous substring (Python's "b in a" on strings)
Contains(a, b) ==
    \E i \in 1..(Len(a) + 1) : i + Len(b) - 1 <= Len(a) /\ SubSeq(a, i, i + Len(b) - 1) = b

(***************************************************************************)
(* DeviceProfile and CloudDevice                                           *)
(***************************************************************************)
NoName == <<>>
NoDevice == [id |-> "", name |-> NoName]

CloudDevice(id, name) == [id |-> id, name |-> name]

DeviceProfile(name, ip, volume_preset) ==
    [name |-> name, instance_name |-> NoName, spotify_device_names |-> <<>>,
     ip |-> ip, port |-> 0, cpath |-> "", volume_preset |-> volume_preset]

Range(s) == {s[i] : i \in 1..Len(s)}

\* DeviceProfile.get_all_matching_names(): {name, instance_name} and the learned
\* names, empty entries removed
get_all_matching_names(p) ==
    {n \in ({p.name, p.instance_name} \cup Range(p.spotify_device_names)) : n /= NoName}

\* AlarmPlaybackEngine._get_target_profile: the lookup succeeds iff the name is a key
HasProfile(reg, target_name) == target_name \in DOMAIN reg

MinOf(S) == CHOOSE x \in S : \A y \in S : x <= y

\* a fuzzy variant: a device whose name contains, or is contained in, a matching name
_pick_device_substring(devices, target_name, reg) ==
    IF devices = <<>> \/ target_name = NoName THEN NoDevice
    ELSE LET matching_names ==
                 IF HasProfile(reg, target_name)
                 THEN get_all_matching_names(reg[target_name])
                 ELSE {target_name}
             matching_names_set == {Normalize(n) : n \in {m \in matching_names : m /= NoName}}
             hits == {i \in 1..Len(devices) :
                         /\ devices[i].name /= NoName
                         /\ \E m \in matching_names_set :
                                \/ Contains(Normalize(devices[i].name), m)
                                \/ Contains(m, Normalize(devices[i].name))}
         IN IF hits = {} THEN NoDevice ELSE devices[MinOf(hits)]

\* a variant that returns the last match instead of the first
_pick_device_last(devices, target_name, reg) ==
    IF devices = <<>> \/ target_name = NoName THEN NoDevice
    ELSE LET matching_names ==
                 IF HasProfile(reg, target_name)
                 THEN get_all_matching_names(reg[target_name])
                 ELSE {target_name}
             matching_names_set == {Normalize(n) : n \in {m \in matching_names : m /= NoName}}
             hits == {i \in 1..Len(devices) :
                         /\ devices[i].name /= NoName
                         /\ Normalize(devices[i].name) \in matching_names_set}
         IN IF hits = {} THEN NoDevice ELSE devices[CHOOSE x \in hits : \A y \in hits : x >= y]

\* AlarmPlaybackEngine._pick_device
_pick_device(devices, target_name, reg) ==
    IF devices = <<>> \/ target_name = NoName THEN NoDevice
    ELSE LET matching_names ==
                 IF HasProfile(reg, target_name)
                 THEN get_all_matching_names(reg[target_name])
                 ELSE {target_name}
             matching_names_set == {Normalize(n) : n \in {m \in matching_names : m /= NoName}}
             hits == {i \in 1..Len(devices) :
                         /\ devices[i].name /= NoName
                         /\ Normalize(devices[i].name) \in matching_names_set}
         IN IF hits = {} THEN NoDevice ELSE devices[MinOf(hits)]

(***************************************************************************)
(* Collaborators' values: cloud devices, device lists, errors              *)
(***************************************************************************)
TargetK == <<"K">>          \* a target with a registry profile
TargetX == <<"x">>          \* a target with no registry profile
Targets == {TargetK, TargetX}

KnownIp == "10.0.0.5"
NoIp == ""

D1 == CloudDevice("D1", <<"k", " ">>)    \* TargetK in another spelling
D2 == CloudDevice("D2", <<"K", "x">>)    \* TargetK is a prefix of this name
D3 == CloudDevice("D3", <<"X">>)         \* TargetX in another spelling

\* the lists CloudAPI.Devices() may answer
DevicesResponses == {<<>>, <<D2>>, <<D2, D1>>, <<D2, D3>>}

DeviceIds == {"D1", "D2", "D3"}
NoPlayback == ""            \* get_current_playback() returned None or no device
PlaybackResponses == DeviceIds \cup {NoPlayback}

ContextUri == "spotify:playlist:X"    \* cfg.context_uri
DefaultVolume == 30
PresetVolume == 40                    \* TargetK's volume_preset

(***************************************************************************)
(* Time, in ticks of 100 ms                                                *)
(***************************************************************************)
MaxLatency == 5               \* the longest a polled cloud call takes
Latencies == {0, MaxLatency}

failover_fire_after_s == 20   \* cfg.timings, 2 s
total_poll_deadline_s == 20   \* cfg.timings, shortened to 2 s
poll_fast_period_s == 10      \* cfg.timings, shortened to 1 s

StageSettle == 2              \* time.sleep(0.2) in stage_device
VerifyTimeout == 5            \* verify_device_ready(..., timeout_s=0.5)
VerifySleep == 5              \* time.sleep(0.5) in verify_device_ready
ConfirmSleep == 2             \* time.sleep(0.2) in the confirmation loop
PollFastSleep == 5            \* 0.5 s
PollSlowSleep == 10           \* 1.0 s
PollErrorSleep == 10          \* time.sleep(1.0) after a failed Devices()
GraceSleep == 20              \* time.sleep(2.0) after a successful addUser

Threads == {1, 2}

(***************************************************************************)
(* CircuitBreakerState                                                     *)
(***************************************************************************)
FailureThreshold == 3
MaxFailures == 4              \* no alarm is fired for a target that failed this often

\* CircuitBreakerState(name)
NewBreaker == [failure_count |-> 0, is_open |-> FALSE, cooled |-> FALSE]

\* the lazy creation every breaker accessor starts with
EnsureBreaker(cb, name) ==
    IF name \in DOMAIN cb THEN cb
    ELSE [n \in DOMAIN cb \cup {name} |-> IF n = name THEN NewBreaker ELSE cb[n]]

\* CircuitBreakerState.record_failure
record_failure(b) ==
    [failure_count |-> b.failure_count + 1,
     is_open |-> b.is_open \/ b.failure_count + 1 >= FailureThreshold,
     cooled |-> FALSE]

\* CircuitBreakerState.record_success
record_success(b) == NewBreaker

\* CircuitBreakerState.should_bypass_primary
should_bypass_primary(b) == b.is_open /\ ~b.cooled

\* AlarmPlaybackEngine._should_bypass_primary
_should_bypass_primary(cb, name) == should_bypass_primary(EnsureBreaker(cb, name)[name])

\* AlarmPlaybackEngine._record_failure
_record_failure(cb, name) ==
    [EnsureBreaker(cb, name) EXCEPT ![name] = record_failure(@)]

\* a _record_failure that records nothing
_record_failure_skipped(cb, name) == EnsureBreaker(cb, name)

\* AlarmPlaybackEngine._record_success
_record_success(cb, name) ==
    [EnsureBreaker(cb, name) EXCEPT ![name] = record_success(@)]

(***************************************************************************)
(* PhaseMetrics, and what a run has called so far                          *)
(***************************************************************************)
NoEndpoint == [ip |-> "", port |-> 0, cpath |-> ""]
NoBranch == <<"">>
Branch(b) == <<b>>
\* f"failed:{reason}"
FailedBranch(reason) == <<"failed:", reason>>

\* the collaborators' operations and the breaker updates a run is counted on
Ops == {"Devices", "Transfer", "Volume", "Play", "CurrentPlayback",
        "_wake_device_via_ip", "mdns_discover_connect", "get_info", "add_user",
        "get_access_token", "airplay_fallback", "_failover",
        "record_failure", "record_success"}

CountCap == 2                 \* calls are counted up to this many

NoCalls == [op \in Ops |-> 0]
Called(calls, op) == [calls EXCEPT ![op] = IF @ < CountCap THEN @ + 1 ELSE @]

NoArgs ==
    [transfer |-> "", volume_id |-> "", volume |-> -1, play |-> "", uri |-> "",
     target_ips |-> <<>>]

\* the locals of a play_alarm call that has not started
IdleRun ==
    [pc |-> "idle", target_name |-> NoName, region |-> "",
     now |-> 0, deadline |-> 0, fast_until |-> 0,
     confirmation_deadline |-> 0, verify_start |-> 0, verify_result |-> FALSE,
     cloud_device |-> NoDevice, local_target |-> DeviceProfile(NoName, NoIp, DefaultVolume),
     target_is_local |-> FALSE,
     endpoint |-> NoEndpoint, local_ok |-> FALSE, auth_ok |-> FALSE,
     state |-> "UNKNOWN", branch |-> NoBranch, errors |-> <<>>,
     reason |-> "", outcome |-> "",
     \* history, for the properties only
     calls |-> NoCalls, args |-> NoArgs,
     fallback_failed |-> FALSE, bypassed |-> FALSE, gate_calls |-> NoCalls,
     first_matched |-> FALSE, unconfirmed |-> FALSE, confirmed_id |-> "",
     poll_expired |-> FALSE,
     confirm_issued |-> FALSE, confirm_seen |-> FALSE,
     poll_calls |-> NoCalls, poll_names |-> <<>>, poll_issued |-> FALSE, poll_seen |-> FALSE,
     failures_at_start |-> 0, raised_in |-> "", volume_failed |-> FALSE]

\* the profile `target` refers to: the registry's object, or the synthesized one
TargetOf(r, reg) == IF r.target_is_local THEN r.local_target ELSE reg[r.target_name]

\* an append that does not look for the name first
Learn_always(p, cloud_name) ==
    [p EXCEPT !.spotify_device_names = Append(@, cloud_name)]

\* a learning step that also takes the cloud name as the profile's instance_name
Learn_rename(p, cloud_name) ==
    [p EXCEPT !.instance_name = cloud_name,
              !.spotify_device_names =
                  IF cloud_name \in Range(@) THEN @ ELSE Append(@, cloud_name)]

\* target.spotify_device_names.append(cloud_device.name) unless already present
Learn(p, cloud_name) ==
    IF cloud_name \in Range(p.spotify_device_names) THEN p
    ELSE [p EXCEPT !.spotify_device_names = Append(@, cloud_name)]

\* volume is None
NoVolume == -1

\* a stage_device that sets the volume before it transfers
stage_device_volume_first(r, device_id, volume, transfer_ok, volume_ok) ==
    [r EXCEPT !.calls = Called(Called(@, "Volume"), "Transfer"),
              !.args = [@ EXCEPT !.transfer = device_id,
                                 !.volume_id = device_id, !.volume = volume],
              !.volume_failed = transfer_ok /\ ~volume_ok,
              !.now = IF transfer_ok THEN @ + StageSettle ELSE @]

\* stage_device applied to a run: Transfer, then Volume unless the volume is None,
\* then the 0.2 s settle; a Transfer error ends it, a Volume error is swallowed
stage_device(r, device_id, volume, transfer_ok, volume_ok) ==
    IF ~transfer_ok
    THEN [r EXCEPT !.calls = Called(@, "Transfer"), !.args.transfer = device_id]
    ELSE [r EXCEPT !.calls = IF volume /= NoVolume
                             THEN Called(Called(@, "Transfer"), "Volume")
                             ELSE Called(@, "Transfer"),
                   !.args = IF volume /= NoVolume
                            THEN [@ EXCEPT !.transfer = device_id,
                                           !.volume_id = device_id, !.volume = volume]
                            ELSE [@ EXCEPT !.transfer = device_id],
                   !.volume_failed = volume /= NoVolume /\ ~volume_ok,
                   !.now = @ + StageSettle]

\* start_play applied to a run: one put_play
start_play(r, device_id, context_uri) ==
    [r EXCEPT !.calls = Called(@, "Play"), !.args.play = device_id,
              !.args.uri = context_uri, !.volume_failed = FALSE]

\* the clock and the loop locals are dead once a deadline loop is left
LeaveLoop(r) ==
    [r EXCEPT !.now = 0, !.deadline = 0, !.fast_until = 0,
              !.confirmation_deadline = 0, !.verify_start = 0, !.verify_result = FALSE]

Set(t, r) == run' = [run EXCEPT ![t] = r]

FailureCount(cb, name) == IF name \in DOMAIN cb THEN cb[name].failure_count ELSE 0

(***************************************************************************)
(* play_alarm, phase 1: the Web API fast path                              *)
(***************************************************************************)
\* play_alarm is entered: fresh PhaseMetrics, state UNKNOWN
StartRun(t, target_name) ==
    /\ run[t].pc \in {"idle", "done"}
    /\ FailureCount(circuit_breakers, target_name) < MaxFailures
    /\ Set(t, [IdleRun EXCEPT !.pc = "webapi_check", !.target_name = target_name,
                              !.region = "webapi",
                              !.local_target = DeviceProfile(target_name, NoIp, DefaultVolume),
                              !.failures_at_start =
                                  FailureCount(circuit_breakers, target_name)])
    /\ UNCHANGED <<registry, circuit_breakers, alarms, pk>>

\* devices = self.api.get_devices(); cloud_device = self._pick_device(...); learning
WebapiCheck(t) ==
    LET r == [run[t] EXCEPT !.calls = Called(@, "Devices")]
    IN /\ r.pc = "webapi_check"
       /\ \/ \* get_devices raises: caught at the inner except, local discovery follows
             /\ Set(t, [r EXCEPT !.pc = "profile"])
             /\ UNCHANGED registry
          \/ \E devices \in DevicesResponses :
               LET cloud_device == _pick_device(devices, r.target_name, registry)
               IN IF cloud_device = NoDevice
                  THEN /\ Set(t, [r EXCEPT !.pc = "profile"])
                       /\ UNCHANGED registry
                  ELSE /\ registry' =
                            IF HasProfile(registry, r.target_name)
                            THEN [registry EXCEPT ![r.target_name] = Learn(@, cloud_device.name)]
                            ELSE registry
                       /\ Set(t, [r EXCEPT !.pc = "webapi_stage",
                                           !.first_matched = TRUE,
                                           !.cloud_device = cloud_device,
                                           !.state = "CLOUD_VISIBLE"])
       /\ UNCHANGED <<circuit_breakers, alarms, pk>>

\* a fast path that goes on to start_play whatever stage_device did
WebapiStage_unchecked(t) ==
    LET r == run[t]
        volume == IF HasProfile(registry, r.target_name)
                  THEN registry[r.target_name].volume_preset ELSE DefaultVolume
    IN /\ r.pc = "webapi_stage"
       /\ \E transfer_ok \in BOOLEAN, volume_ok \in BOOLEAN :
            Set(t, [stage_device(r, r.cloud_device.id, volume, transfer_ok, volume_ok) EXCEPT
                      !.pc = "webapi_play",
                      !.state = IF transfer_ok THEN "STAGED" ELSE @])
       /\ UNCHANGED <<registry, circuit_breakers, alarms, pk>>

\* stage_device on the fast path; an error is caught by the inner except
WebapiStage(t) ==
    LET r == run[t]
        volume == IF HasProfile(registry, r.target_name)
                  THEN registry[r.target_name].volume_preset ELSE DefaultVolume
    IN /\ r.pc = "webapi_stage"
       /\ \E transfer_ok \in BOOLEAN, volume_ok \in BOOLEAN :
            Set(t, [stage_device(r, r.cloud_device.id, volume, transfer_ok, volume_ok) EXCEPT
                      !.pc = IF transfer_ok THEN "webapi_play" ELSE "profile",
                      !.state = IF transfer_ok THEN "STAGED" ELSE @])
       /\ UNCHANGED <<registry, circuit_breakers, alarms, pk>>

\* a fast path that reports its success to the circuit breaker
WebapiPlay_records(t) ==
    LET r == start_play(run[t], run[t].cloud_device.id, ContextUri)
    IN /\ r.pc = "webapi_play"
       /\ \/ /\ Set(t, [r EXCEPT !.pc = "profile"])
             /\ UNCHANGED circuit_breakers
          \/ /\ Set(t, [r EXCEPT !.pc = "done", !.outcome = "returned",
                                 !.branch = Branch("webapi_direct"),
                                 !.calls = Called(@, "record_success")])
             /\ circuit_breakers' = _record_success(circuit_breakers, r.target_name)
       /\ UNCHANGED <<registry, alarms, pk>>

\* start_play on the fast path, then return metrics with branch webapi_direct
WebapiPlay(t) ==
    LET r == start_play(run[t], run[t].cloud_device.id, ContextUri)
    IN /\ r.pc = "webapi_play"
       /\ \/ Set(t, [r EXCEPT !.pc = "profile"])
          \/ Set(t, [r EXCEPT !.pc = "done", !.outcome = "returned",
                              !.branch = Branch("webapi_direct")])
       /\ UNCHANGED <<registry, circuit_breakers, alarms, pk>>

(***************************************************************************)
(* The outer except of play_alarm, and _failover                           *)
(***************************************************************************)
\* except Exception as e (outer): record the failure, then fail over with str(e)
HandleException(t, r, e) ==
    /\ circuit_breakers' = _record_failure(circuit_breakers, r.target_name)
    /\ Set(t, [r EXCEPT !.pc = "failover", !.region = "handler", !.reason = e,
                        !.calls = Called(@, "record_failure")])

\* an outer except that re-raises the RuntimeError without recording it
FailoverRaises_unrecorded(t, r) ==
    CASE r.region = "ipwake" ->
           /\ Set(t, [r EXCEPT !.pc = "discovery", !.region = "main"])
           /\ UNCHANGED circuit_breakers
      [] OTHER ->
           /\ Set(t, [r EXCEPT !.pc = "done", !.outcome = "raised"])
           /\ UNCHANGED circuit_breakers

\* where the RuntimeError of a failed fallback goes: swallowed by the except of
\* the IP wake-up branch, re-raised by the outer except after record_failure,
\* or, when raised inside the outer except itself, straight out of play_alarm
FailoverRaises(t, r) ==
    CASE r.region = "ipwake" ->
           /\ Set(t, [r EXCEPT !.pc = "discovery", !.region = "main"])
           /\ UNCHANGED circuit_breakers
      [] r.region = "main" ->
           /\ circuit_breakers' = _record_failure(circuit_breakers, r.target_name)
           /\ Set(t, [r EXCEPT !.pc = "done", !.outcome = "raised",
                               !.calls = Called(@, "record_failure")])
      [] OTHER ->
           /\ Set(t, [r EXCEPT !.pc = "done", !.outcome = "raised"])
           /\ UNCHANGED circuit_breakers

\* a _failover that hands the failed metrics back instead of raising
_failover_returns_failed(t) ==
    LET r == run[t]
    IN /\ r.pc = "failover"
       /\ \E fallback_ok \in BOOLEAN :
            Set(t, [r EXCEPT !.pc = "done", !.outcome = "returned",
                             !.calls = Called(@, "_failover"),
                             !.fallback_failed = ~fallback_ok,
                             !.branch = IF fallback_ok THEN Branch("fallback")
                                        ELSE FailedBranch(r.reason)])
       /\ UNCHANGED <<registry, circuit_breakers, alarms, pk>>

\* a _failover that tries the fallback whatever it knows of the target
_failover_without_ip(t) ==
    LET r == [run[t] EXCEPT !.calls = Called(@, "_failover")]
        target_ips == IF HasProfile(registry, r.target_name)
                      THEN <<registry[r.target_name].ip>> ELSE <<NoIp>>
        called == [r EXCEPT !.calls = Called(@, "airplay_fallback"),
                            !.args.target_ips = target_ips]
    IN /\ r.pc = "failover"
       /\ \/ FailoverRaises(t, [called EXCEPT
                                  !.branch = FailedBranch(r.reason),
                                  !.errors = Append(@, <<"Fallback failed", r.reason>>),
                                  !.fallback_failed = TRUE])
          \/ /\ Set(t, [called EXCEPT
                          !.pc = "done", !.outcome = "returned",
                          !.branch = Branch("fallback"),
                          !.errors = Append(@, <<"Primary failed", r.reason>>)])
             /\ UNCHANGED circuit_breakers
       /\ UNCHANGED <<registry, alarms, pk>>

\* AlarmPlaybackEngine._failover
_failover(t) ==
    LET r == [run[t] EXCEPT !.calls = Called(@, "_failover")]
        can_fall_back == /\ HasProfile(registry, r.target_name)
                         /\ registry[r.target_name].ip /= NoIp
        called == IF can_fall_back
                  THEN [r EXCEPT !.calls = Called(@, "airplay_fallback"),
                                 !.args.target_ips = <<registry[r.target_name].ip>>]
                  ELSE r
    IN /\ r.pc = "failover"
       /\ \/ \* no profile or no ip, or airplay_fallback raises
             FailoverRaises(t, [called EXCEPT
                                  !.branch = FailedBranch(r.reason),
                                  !.errors = Append(@, <<"Fallback failed", r.reason>>),
                                  !.fallback_failed = TRUE])
          \/ \* airplay_fallback returns
             /\ can_fall_back
             /\ Set(t, [called EXCEPT
                          !.pc = "done", !.outcome = "returned",
                          !.branch = Branch("fallback"),
                          !.errors = Append(@, <<"Primary failed", r.reason>>)])
             /\ UNCHANGED circuit_breakers
       /\ UNCHANGED <<registry, alarms, pk>>

(***************************************************************************)
(* play_alarm, phases 2-3: profile resolution and the circuit breaker gate *)
(***************************************************************************)
\* a gate that notes the open breaker and walks the wake ladder all the same
ProfileGate_open(t) ==
    LET r == run[t]
        is_local == ~HasProfile(registry, r.target_name)
        ip == IF is_local THEN NoIp ELSE registry[r.target_name].ip
    IN /\ r.pc = "profile"
       /\ circuit_breakers' = EnsureBreaker(circuit_breakers, r.target_name)
       /\ Set(t, [r EXCEPT !.pc = IF ip /= NoIp THEN "ip_wakeup" ELSE "discovery",
                           !.region = IF ip /= NoIp THEN "ipwake" ELSE "main",
                           !.target_is_local = is_local,
                           !.gate_calls = r.calls,
                           !.bypassed = _should_bypass_primary(circuit_breakers, r.target_name)])
       /\ UNCHANGED <<registry, alarms, pk>>

\* target = profile or a minimal one; if self._should_bypass_primary(...): failover
ProfileGate(t) ==
    LET r == run[t]
        is_local == ~HasProfile(registry, r.target_name)
        ip == IF is_local THEN NoIp ELSE registry[r.target_name].ip
    IN /\ r.pc = "profile"
       /\ circuit_breakers' = EnsureBreaker(circuit_breakers, r.target_name)
       /\ IF _should_bypass_primary(circuit_breakers, r.target_name)
          THEN Set(t, [r EXCEPT !.pc = "failover", !.region = "main",
                                !.target_is_local = is_local,
                                !.gate_calls = r.calls,
                                !.reason = "circuit_breaker_open", !.bypassed = TRUE])
          ELSE Set(t, [r EXCEPT !.pc = IF ip /= NoIp THEN "ip_wakeup" ELSE "discovery",
                                !.region = IF ip /= NoIp THEN "ipwake" ELSE "main",
                                !.gate_calls = r.calls,
                                !.target_is_local = is_local])
       /\ UNCHANGED <<registry, alarms, pk>>

(***************************************************************************)
(* play_alarm, the IP wake-up branch; its except swallows every error      *)
(***************************************************************************)
\* _wake_device_via_ip(target.ip, ...)
IpWakeup(t) ==
    LET r == [run[t] EXCEPT !.calls = Called(@, "_wake_device_via_ip")]
    IN /\ r.pc = "ip_wakeup"
       /\ \E wake_success \in BOOLEAN :
            \* False and an exception both lead on to mDNS discovery
            Set(t, [r EXCEPT !.pc = IF wake_success THEN "ipw_devices" ELSE "discovery",
                             !.region = IF wake_success THEN "ipwake" ELSE "main"])
       /\ UNCHANGED <<registry, circuit_breakers, alarms, pk>>

\* the quick Devices() check after a successful wake, learning, debounce
IpWakeDevices(t) ==
    LET r == [run[t] EXCEPT !.calls = Called(@, "Devices")]
        miss == [r EXCEPT !.pc = "discovery", !.region = "main"]
    IN /\ r.pc = "ipw_devices"
       /\ \/ Set(t, miss) /\ UNCHANGED registry
          \/ \E devices \in DevicesResponses :
               LET cloud_device == _pick_device(devices, r.target_name, registry)
               IN IF cloud_device = NoDevice
                  THEN Set(t, [miss EXCEPT !.cloud_device = NoDevice]) /\ UNCHANGED registry
                  ELSE /\ registry' = [registry EXCEPT ![r.target_name] =
                                           Learn(@, cloud_device.name)]
                       /\ Set(t, [r EXCEPT !.pc = "ipw_stage",
                                           !.cloud_device = cloud_device,
                                           !.state = "CLOUD_VISIBLE"])
       /\ UNCHANGED <<circuit_breakers, alarms, pk>>

\* stage_device in the IP wake-up branch
IpWakeStage(t) ==
    LET r == run[t]
    IN /\ r.pc = "ipw_stage"
       /\ \E transfer_ok \in BOOLEAN, volume_ok \in BOOLEAN :
            Set(t, [stage_device(r, r.cloud_device.id,
                                 registry[r.target_name].volume_preset,
                                 transfer_ok, volume_ok) EXCEPT
                      !.pc = IF transfer_ok THEN "ipw_play" ELSE "discovery",
                      !.region = IF transfer_ok THEN "ipwake" ELSE "main",
                      !.raised_in = IF transfer_ok THEN @ ELSE "Transfer",
                      !.state = IF transfer_ok THEN "STAGED" ELSE @])
       /\ UNCHANGED <<registry, circuit_breakers, alarms, pk>>

\* start_play in the IP wake-up branch, then the confirmation deadline
IpWakePlay(t) ==
    LET r == start_play(run[t], run[t].cloud_device.id, ContextUri)
    IN /\ r.pc = "ipw_play"
       /\ \/ Set(t, [r EXCEPT !.pc = "discovery", !.region = "main", !.raised_in = "Play"])
          \/ Set(t, [r EXCEPT !.pc = "ipw_confirm", !.now = 0,
                              !.confirmation_deadline = failover_fire_after_s])
       /\ UNCHANGED <<registry, circuit_breakers, alarms, pk>>

\* while time.time() < confirmation_deadline: ... else: failover
IpWakeConfirm(t) ==
    LET r == run[t]
    IN /\ r.pc = "ipw_confirm"
       /\ IF r.now < r.confirmation_deadline
          THEN Set(t, [r EXCEPT !.pc = "verify", !.verify_start = r.now])
          ELSE Set(t, [LeaveLoop(r) EXCEPT !.pc = "failover", !.unconfirmed = TRUE,
                                           !.reason = "play_not_confirmed_t2"])
       /\ UNCHANGED <<registry, circuit_breakers, alarms, pk>>

\* any active device counts
PlaybackMatches_any(playback_id, device_id) == playback_id /= NoPlayback

\* playback_info and playback_info.get('device', {}).get('id') == device_id
PlaybackMatches(playback_id, device_id) ==
    playback_id /= NoPlayback /\ playback_id = device_id

\* verify_device_ready: one turn of its loop
verify_device_ready(t) ==
    LET r == run[t]
        called == [r EXCEPT !.calls = Called(@, "CurrentPlayback")]
    IN /\ r.pc = "verify"
       /\ IF r.now - r.verify_start < VerifyTimeout
          THEN \E lat \in Latencies :
                 \/ \* get_current_playback raises
                    Set(t, [called EXCEPT !.now = @ + lat + VerifySleep])
                 \/ \E playback_id \in PlaybackResponses :
                      IF PlaybackMatches(playback_id, r.cloud_device.id)
                      THEN Set(t, [called EXCEPT
                                     !.pc = "verify_ret", !.verify_result = TRUE,
                                     !.now = @ + lat,
                                     !.confirmed_id = playback_id,
                                     !.confirm_issued = r.now < r.confirmation_deadline,
                                     !.confirm_seen =
                                         r.now + lat < r.confirmation_deadline])
                      ELSE Set(t, [called EXCEPT !.now = @ + lat + VerifySleep])
          ELSE Set(t, [r EXCEPT !.pc = "verify_ret", !.verify_result = FALSE])
       /\ UNCHANGED <<registry, circuit_breakers, alarms, pk>>

\* back in the IP wake-up confirmation loop with verify_device_ready's answer
IpWakeConfirmed(t) ==
    LET r == run[t]
    IN /\ r.pc = "verify_ret"
       /\ r.region = "ipwake"
       /\ IF r.verify_result
          THEN /\ circuit_breakers' = _record_success(circuit_breakers, r.target_name)
               /\ Set(t, [LeaveLoop(r) EXCEPT !.pc = "done", !.outcome = "returned",
                                   !.state = "PLAYING",
                                   !.branch = Branch("primary_ip_wakeup"),
                                   !.calls = Called(@, "record_success")])
          ELSE /\ Set(t, [r EXCEPT !.pc = "ipw_confirm", !.now = @ + ConfirmSleep])
               /\ UNCHANGED circuit_breakers
       /\ UNCHANGED <<registry, alarms, pk>>

(***************************************************************************)
(* play_alarm, the main path: discovery, handshake, poll, stage, play      *)
(***************************************************************************)
DefaultPort == 80
DefaultCpath == "/spotifyconnect/zeroconf"

\* what mdns_discover_connect may resolve
MdnsEndpoint == [ip |-> "10.0.0.7", port |-> 4070, cpath |-> "/zc"]
InstanceNames == {NoName, <<"k">>}

\* DiscoveryResult.is_complete
is_complete(d) == d.ip /= NoIp /\ d.port > 0

\* a DiscoveryResult that takes the profile's port and cpath as they are
EndpointOf_verbatim(p) == [ip |-> p.ip, port |-> p.port, cpath |-> p.cpath]

\* the DiscoveryResult built from a registry profile
EndpointOf(p) ==
    [ip |-> p.ip,
     port |-> IF p.port = 0 THEN DefaultPort ELSE p.port,
     cpath |-> IF p.cpath = "" THEN DefaultCpath ELSE p.cpath]

\* writes `target`, which is the registry's object or the synthesized profile
WriteTarget(t, r, p) ==
    IF r.target_is_local
    THEN /\ Set(t, [r EXCEPT !.local_target = p])
         /\ UNCHANGED registry
    ELSE /\ Set(t, r)
         /\ registry' = [registry EXCEPT ![r.target_name] = p]

\* mdns_discover_connect, the instance_name update, the registry fallback
Discovery(t) ==
    LET r == [run[t] EXCEPT !.calls = Called(@, "mdns_discover_connect"),
                            !.region = "main"]
        target == TargetOf(r, registry)
    IN /\ r.pc = "discovery"
       /\ \/ /\ HandleException(t, [r EXCEPT !.raised_in = "mdns_discover_connect"],
                                "mdns_error")
             /\ UNCHANGED registry
          \/ \E instance_name \in InstanceNames :
               \* a complete result
               /\ WriteTarget(t, [r EXCEPT !.pc = "getinfo", !.state = "DISCOVERED",
                                           !.endpoint = MdnsEndpoint],
                              IF instance_name /= NoName /\ target.instance_name = NoName
                              THEN [target EXCEPT !.instance_name = instance_name]
                              ELSE target)
               /\ UNCHANGED circuit_breakers
          \/ \* an incomplete result
             /\ IF HasProfile(registry, r.target_name) /\ registry[r.target_name].ip /= NoIp
                THEN Set(t, [r EXCEPT !.pc = "getinfo", !.state = "DISCOVERED",
                                      !.endpoint = EndpointOf(registry[r.target_name])])
                ELSE Set(t, [r EXCEPT !.pc = "failover", !.reason = "no_mdns",
                                      !.state = "DEEP_SLEEP_SUSPECTED"])
             /\ UNCHANGED <<registry, circuit_breakers>>
       /\ UNCHANGED <<alarms, pk>>

\* get_info(ip, port, cpath): a boolean, it never raises
GetInfo(t) ==
    LET r == [run[t] EXCEPT !.calls = Called(@, "get_info")]
    IN /\ r.pc = "getinfo"
       /\ \E local_ok \in BOOLEAN : Set(t, [r EXCEPT !.pc = "token", !.local_ok = local_ok])
       /\ UNCHANGED <<registry, circuit_breakers, alarms, pk>>

\* self.api.token_manager.get_access_token()
AccessToken(t) ==
    LET r == [run[t] EXCEPT !.calls = Called(@, "get_access_token")]
    IN /\ r.pc = "token"
       /\ \/ HandleException(t, [r EXCEPT !.raised_in = "get_access_token"], "token_error")
          \/ Set(t, [r EXCEPT !.pc = "adduser"]) /\ UNCHANGED circuit_breakers
       /\ UNCHANGED <<registry, alarms, pk>>

\* the lines after the addUser attempts: LOGGED_IN and the 2 s grace, or a warning
AfterAddUser(r, auth_ok) ==
    [r EXCEPT !.pc = "pre_poll", !.auth_ok = auth_ok,
              !.state = IF auth_ok THEN "LOGGED_IN" ELSE @,
              !.now = IF auth_ok THEN @ + GraceSleep ELSE @]

\* an access_token attempt that is followed by the blob_clientKey one in any case
AddUser_then_blob(t) ==
    LET r == [run[t] EXCEPT !.calls = Called(@, "add_user")]
    IN /\ r.pc = "adduser"
       /\ \E auth_ok \in BOOLEAN :
            Set(t, [r EXCEPT !.pc = "adduser_blob", !.auth_ok = auth_ok])
       /\ UNCHANGED <<registry, circuit_breakers, alarms, pk>>

\* add_user in access_token mode
AddUser(t) ==
    LET r == [run[t] EXCEPT !.calls = Called(@, "add_user")]
    IN /\ r.pc = "adduser"
       /\ \/ Set(t, AfterAddUser(r, TRUE))
          \/ Set(t, [r EXCEPT !.pc = "adduser_blob"])
       /\ UNCHANGED <<registry, circuit_breakers, alarms, pk>>

\* the blob_clientKey retry: provider, credentials, add_user
AddUserBlob(t) ==
    LET r == run[t]
    IN /\ r.pc = "adduser_blob"
       /\ \/ \* the import or create_credential_provider raises, outside the inner try
             HandleException(t, r, "provider_error")
          \/ \* get_blob_clientkey_creds raises: logged, auth_ok stays False
             Set(t, AfterAddUser(r, FALSE)) /\ UNCHANGED circuit_breakers
          \/ \E auth_ok \in BOOLEAN :
               /\ Set(t, AfterAddUser([r EXCEPT !.calls = Called(@, "add_user")], auth_ok))
               /\ UNCHANGED circuit_breakers
       /\ UNCHANGED <<registry, alarms, pk>>

\* the state left by the handshake, then the poll's deadlines
StartPoll(t) ==
    LET r == run[t]
    IN /\ r.pc = "pre_poll"
       /\ Set(t, [r EXCEPT !.pc = "cloud_poll",
                           !.state = IF r.local_ok THEN "LOCAL_AWAKE"
                                     ELSE IF r.auth_ok THEN "LOGGED_IN" ELSE "DISCOVERED",
                           !.now = 0,
                           !.deadline = total_poll_deadline_s,
                           !.fast_until = poll_fast_period_s,
                           !.cloud_device = NoDevice,
                           !.poll_calls = r.calls,
                           !.poll_names = TargetOf(r, registry).spotify_device_names])
       /\ UNCHANGED <<registry, circuit_breakers, alarms, pk>>

\* a poll that goes on past its deadline
PollOpen_forever(now, deadline) == now < deadline + total_poll_deadline_s

\* while time.time() < deadline
PollOpen(now, deadline) == now < deadline

\* one turn of the poll: Devices(), match and learn, or sleep; past the deadline,
\* failover
CloudPoll(t) ==
    LET r == run[t]
        called == [r EXCEPT !.calls = Called(@, "Devices")]
    IN /\ r.pc = "cloud_poll"
       /\ IF PollOpen(r.now, r.deadline)
          THEN \E lat \in Latencies :
                 \/ \* Devices() raises: logged, sleep, next turn
                    /\ Set(t, [called EXCEPT !.now = @ + lat + PollErrorSleep])
                    /\ UNCHANGED registry
                 \/ \E devices \in DevicesResponses :
                      LET cloud_device == _pick_device(devices, r.target_name, registry)
                          seen == r.now + lat
                      IN IF cloud_device = NoDevice
                         THEN /\ Set(t, [called EXCEPT
                                   !.cloud_device = NoDevice,
                                   !.now = seen + (IF seen < r.fast_until
                                                   THEN PollFastSleep ELSE PollSlowSleep)])
                              /\ UNCHANGED registry
                         ELSE WriteTarget(t,
                                [LeaveLoop(called) EXCEPT
                                    !.pc = "stage",
                                    !.cloud_device = cloud_device,
                                    !.state = "CLOUD_VISIBLE",
                                    !.poll_issued = r.now < r.deadline,
                                    !.poll_seen = seen < r.deadline],
                                Learn(TargetOf(r, registry), cloud_device.name))
          ELSE /\ Set(t, [LeaveLoop(r) EXCEPT !.pc = "failover",
                                              !.poll_expired = r.now >= r.deadline,
                                              !.reason = "not_in_devices_by_deadline"])
               /\ UNCHANGED registry
       /\ UNCHANGED <<circuit_breakers, alarms, pk>>

\* phase 7: stage_device; an error reaches the outer except
Stage(t) ==
    LET r == run[t]
    IN /\ r.pc = "stage"
       /\ \E transfer_ok \in BOOLEAN, volume_ok \in BOOLEAN :
            LET r1 == stage_device(r, r.cloud_device.id,
                                   TargetOf(r, registry).volume_preset,
                                   transfer_ok, volume_ok)
            IN IF transfer_ok
               THEN Set(t, [r1 EXCEPT !.pc = "play", !.state = "STAGED"])
                    /\ UNCHANGED circuit_breakers
               ELSE HandleException(t, [r1 EXCEPT !.raised_in = "Transfer"],
                                    "transfer_error")
       /\ UNCHANGED <<registry, alarms, pk>>

\* phase 8: start_play; an error reaches the outer except
Play(t) ==
    LET r == start_play(run[t], run[t].cloud_device.id, ContextUri)
    IN /\ r.pc = "play"
       /\ \/ HandleException(t, [r EXCEPT !.raised_in = "Play"], "play_error")
          \/ /\ Set(t, [r EXCEPT !.pc = "confirm", !.now = 0,
                                 !.confirmation_deadline = failover_fire_after_s])
             /\ UNCHANGED circuit_breakers
       /\ UNCHANGED <<registry, alarms, pk>>

\* while time.time() < confirmation_deadline: ... else: failover
Confirm(t) ==
    LET r == run[t]
    IN /\ r.pc = "confirm"
       /\ IF r.now < r.confirmation_deadline
          THEN Set(t, [r EXCEPT !.pc = "verify", !.verify_start = r.now])
          ELSE Set(t, [LeaveLoop(r) EXCEPT !.pc = "failover", !.unconfirmed = TRUE,
                                           !.reason = "play_not_confirmed_t2"])
       /\ UNCHANGED <<registry, circuit_breakers, alarms, pk>>

\* a confirmation loop that takes a fresh deadline on every turn
Confirmed_restart(t) ==
    LET r == run[t]
    IN /\ r.pc = "verify_ret"
       /\ r.region = "main"
       /\ IF r.verify_result
          THEN /\ circuit_breakers' = _record_success(circuit_breakers, r.target_name)
               /\ Set(t, [LeaveLoop(r) EXCEPT !.pc = "done", !.outcome = "returned",
                                   !.state = "PLAYING", !.branch = Branch("primary"),
                                   !.calls = Called(@, "record_success")])
          ELSE /\ Set(t, [r EXCEPT !.pc = "confirm", !.now = 0])
               /\ UNCHANGED circuit_breakers
       /\ UNCHANGED <<registry, alarms, pk>>

\* back in the confirmation loop with verify_device_ready's answer
Confirmed(t) ==
    LET r == run[t]
    IN /\ r.pc = "verify_ret"
       /\ r.region = "main"
       /\ IF r.verify_result
          THEN /\ circuit_breakers' = _record_success(circuit_breakers, r.target_name)
               /\ Set(t, [LeaveLoop(r) EXCEPT !.pc = "done", !.outcome = "returned",
                                   !.state = "PLAYING", !.branch = Branch("primary"),
                                   !.calls = Called(@, "record_success")])
          ELSE /\ Set(t, [r EXCEPT !.pc = "confirm", !.now = @ + ConfirmSleep])
               /\ UNCHANGED circuit_breakers
       /\ UNCHANGED <<registry, alarms, pk>>

(***************************************************************************)
(* The environment                                                         *)
(***************************************************************************)
\* wall-clock time passes the breaker's cooldown
CooldownElapses(name) ==
    /\ name \in DOMAIN circuit_breakers
    /\ circuit_breakers[name].is_open
    /\ ~circuit_breakers[name].cooled
    /\ circuit_breakers' = [circuit_breakers EXCEPT ![name].cooled = TRUE]
    /\ UNCHANGED <<registry, run, alarms, pk>>

(***************************************************************************)
(* Specifications                                                          *)
(***************************************************************************)
NoPick == [devices |-> <<>>, target_name |-> NoName, result |-> NoDevice, done |-> FALSE]

\* AlarmPlaybackEngine.__init__ with cfg.targets = one profile for TargetK; the
\* scheduler holds an alarm for one target
Init ==
    /\ \E ip \in {KnownIp, NoIp} :
         registry = [n \in {TargetK} |-> DeviceProfile(TargetK, ip, PresetVolume)]
    /\ circuit_breakers = [n \in {TargetK} |-> NewBreaker]
    /\ run = [t \in Threads |-> IdleRun]
    /\ \E target_name \in Targets : alarms = {target_name}
    /\ pk = NoPick

Step(t) ==
    \/ \E target_name \in alarms : StartRun(t, target_name)
    \/ WebapiCheck(t)
    \/ WebapiStage(t)
    \/ WebapiPlay(t)
    \/ ProfileGate(t)
    \/ IpWakeup(t)
    \/ IpWakeDevices(t)
    \/ IpWakeStage(t)
    \/ IpWakePlay(t)
    \/ IpWakeConfirm(t)
    \/ IpWakeConfirmed(t)
    \/ verify_device_ready(t)
    \/ Discovery(t)
    \/ GetInfo(t)
    \/ AccessToken(t)
    \/ AddUser(t)
    \/ AddUserBlob(t)
    \/ StartPoll(t)
    \/ CloudPoll(t)
    \/ Stage(t)
    \/ Play(t)
    \/ Confirm(t)
    \/ Confirmed(t)
    \/ _failover(t)

\* the scheduler fires the alarms one after the other, on one thread
Next ==
    \/ Step(1)
    \/ \E name \in Targets : CooldownElapses(name)

Spec == Init /\ [][Next]_vars

\* the thread that runs play_alarm keeps running: every collaborator call and
\* every sleep returns
SpecLive == Init /\ [][Next]_vars /\ WF_vars(Step(1))

\* two scheduler threads and two alarms for TargetK; the runs are followed
\* through the fast path, the gate, discovery and the fail-over
InitConc ==
    /\ registry = [n \in {TargetK} |-> DeviceProfile(TargetK, NoIp, PresetVolume)]
    /\ circuit_breakers = [n \in {TargetK} |-> NewBreaker]
    /\ run = [t \in Threads |-> IdleRun]
    /\ alarms = {TargetK}
    /\ pk = NoPick

StepConc(t) ==
    \/ \E target_name \in alarms : StartRun(t, target_name)
    \/ WebapiCheck(t)
    \/ WebapiStage(t)
    \/ WebapiPlay(t)
    \/ ProfileGate(t)
    \/ Discovery(t)
    \/ _failover(t)

NextConc == \E t \in Threads : StepConc(t)

SpecConc == InitConc /\ [][NextConc]_vars

\* one scheduler thread; the profile has any of the ports and cpaths, and the run
\* is followed from the gate through discovery and the handshake to the poll
ProfilePorts == {0, 8009}
ProfileCpaths == {"", "/zc2"}

InitHandshake ==
    /\ \E ip \in {KnownIp, NoIp}, port \in ProfilePorts, cpath \in ProfileCpaths :
         registry = [n \in {TargetK} |->
                       [DeviceProfile(TargetK, ip, PresetVolume) EXCEPT
                          !.port = port, !.cpath = cpath]]
    /\ circuit_breakers = [n \in {TargetK} |-> NewBreaker]
    /\ run = [t \in Threads |-> IdleRun]
    /\ \E target_name \in Targets : alarms = {target_name}
    /\ pk = NoPick

StepHandshake(t) ==
    \/ \E target_name \in alarms : StartRun(t, target_name)
    \/ WebapiCheck(t)
    \/ ProfileGate(t)
    \/ IpWakeup(t)
    \/ IpWakeDevices(t)
    \/ Discovery(t)
    \/ GetInfo(t)
    \/ AccessToken(t)
    \/ AddUser(t)
    \/ AddUserBlob(t)
    \/ StartPoll(t)
    \/ _failover(t)

NextHandshake == StepHandshake(1)

SpecHandshake == InitHandshake /\ [][NextHandshake]_vars

\* _pick_device on its own, over every short device list and profile
PickTargets == {NoName, <<"k">>, <<" ", "K">>}
PickInstances == {NoName, <<"k", "k">>}
PickLearned == {<<>>, << <<"K", "K">> >>, << <<"k", " ">> >>}
DeviceIdAt == <<"D1", "D2", "D3", "D4">>

DeviceLists ==
    {[i \in 1..Len(names) |-> CloudDevice(DeviceIdAt[i], names[i])] :
        names \in SeqsUpTo(Names, MaxDevices)}

InitPick ==
    /\ circuit_breakers = <<>>
    /\ run = [t \in Threads |-> IdleRun]
    /\ alarms = {}
    /\ \E devices \in DeviceLists, target_name \in PickTargets :
         /\ pk = [NoPick EXCEPT !.devices = devices, !.target_name = target_name]
         /\ \/ registry = <<>>
            \/ /\ target_name /= NoName
               /\ \E instance_name \in PickInstances, learned \in PickLearned :
                    registry = [n \in {target_name} |->
                                  [DeviceProfile(target_name, NoIp, DefaultVolume) EXCEPT
                                     !.instance_name = instance_name,
                                     !.spotify_device_names = learned]]

PickDevice ==
    /\ ~pk.done
    /\ pk' = [pk EXCEPT !.result = _pick_device(pk.devices, pk.target_name, registry),
                        !.done = TRUE]
    /\ UNCHANGED <<registry, circuit_breakers, run, alarms>>

SpecPick == InitPick /\ [][PickDevice]_vars

(***************************************************************************)
(* The breaker methods under concurrent callers.  Each thread is a         *)
(* play_alarm run reduced to its calls of _should_bypass_primary,          *)
(* _record_failure and _record_success; the membership test, the lazy      *)
(* creation and the method call are separate steps, as nothing in the      *)
(* engine makes them one.                                                  *)
(***************************************************************************)
BreakerOps == {"_should_bypass_primary", "_record_failure", "_record_success"}

\* a thread enters one of the three methods for its target
BreakerCall(t, name, op) ==
    /\ run[t].pc = "idle"
    /\ run[t].target_name \in {NoName, name}
    /\ op = "_record_failure" => run[t].calls["record_failure"] < CountCap
    /\ op = "_record_success" => run[t].calls["record_success"] < CountCap
    /\ Set(t, [run[t] EXCEPT !.pc = "cb_check", !.target_name = name, !.reason = op,
                              !.outcome = ""])
    /\ UNCHANGED <<registry, circuit_breakers, alarms, pk>>

\* if target_name not in self.circuit_breakers
BreakerCheck(t) ==
    /\ run[t].pc = "cb_check"
    /\ Set(t, [run[t] EXCEPT !.pc = IF run[t].target_name \in DOMAIN circuit_breakers
                                    THEN "cb_apply" ELSE "cb_create"])
    /\ UNCHANGED <<registry, circuit_breakers, alarms, pk>>

\* self.circuit_breakers[target_name] = CircuitBreakerState(target_name)
BreakerCreate(t) ==
    /\ run[t].pc = "cb_create"
    /\ circuit_breakers' =
           [n \in DOMAIN circuit_breakers \cup {run[t].target_name} |->
               IF n = run[t].target_name THEN NewBreaker ELSE circuit_breakers[n]]
    /\ Set(t, [run[t] EXCEPT !.pc = "cb_apply"])
    /\ UNCHANGED <<registry, alarms, pk>>

\* self.circuit_breakers[target_name].record_failure() / .record_success() /
\* .should_bypass_primary()
BreakerApply(t) ==
    LET r == run[t]
        name == r.target_name
    IN /\ r.pc = "cb_apply"
       /\ CASE r.reason = "_record_failure" ->
                 /\ circuit_breakers' = [circuit_breakers EXCEPT ![name] = record_failure(@)]
                 /\ Set(t, [r EXCEPT !.pc = "idle", !.calls = Called(@, "record_failure")])
            [] r.reason = "_record_success" ->
                 /\ circuit_breakers' = [circuit_breakers EXCEPT ![name] = record_success(@)]
                 /\ Set(t, [r EXCEPT !.pc = "idle", !.calls = Called(@, "record_success")])
            [] OTHER ->
                 /\ Set(t, [r EXCEPT !.pc = "idle",
                                     !.bypassed = should_bypass_primary(circuit_breakers[name])])
                 /\ UNCHANGED circuit_breakers
       /\ UNCHANGED <<registry, alarms, pk>>

\* AlarmPlaybackEngine.reset_circuit_breaker: record_success on the entry, or
\* ValueError when there is none
reset_circuit_breaker(t, name) ==
    LET r == run[t]
    IN /\ r.pc = "idle"
       /\ r.target_name \in {NoName, name}
       /\ r.calls["record_success"] < CountCap
       /\ IF name \in DOMAIN circuit_breakers
          THEN /\ circuit_breakers' = [circuit_breakers EXCEPT ![name] = record_success(@)]
               /\ Set(t, [r EXCEPT !.target_name = name, !.reason = "reset_circuit_breaker",
                                   !.outcome = "returned",
                                   !.calls = Called(@, "record_success")])
          ELSE /\ UNCHANGED circuit_breakers
               /\ Set(t, [r EXCEPT !.target_name = name, !.reason = "reset_circuit_breaker",
                                   !.outcome = "raised"])
       /\ UNCHANGED <<registry, alarms, pk>>

NextBreaker ==
    \E t \in Threads :
        \/ \E name \in Targets, op \in BreakerOps : BreakerCall(t, name, op)
        \/ BreakerCheck(t)
        \/ BreakerCreate(t)
        \/ BreakerApply(t)
        \/ \E name \in Targets : reset_circuit_breaker(t, name)

SpecBreaker == InitConc /\ [][NextBreaker]_vars

(***************************************************************************)
(* The PhaseMetrics of a run that succeeds on the primary path.  The clock *)
(* counts half milliseconds, so that int(seconds * 1000) truncates.        *)
(***************************************************************************)
MaxPhaseTicks == 3
PhaseTicks == 0..MaxPhaseTicks

\* int((time.time() - start) * 1000)
ElapsedMs(clock, start) == (clock - start) \div 2

NoMetrics ==
    [pc |-> "webapi", clock |-> 0, total_start_time |-> 0,
     discovered_ms |-> 0, getinfo_ms |-> 0, adduser_ms |-> 0,
     cloud_visible_ms |-> 0, play_ms |-> 0, total_duration_ms |-> 0]

InitMetrics ==
    /\ registry = <<>>
    /\ circuit_breakers = <<>>
    /\ run = [t \in Threads |-> IdleRun]
    /\ alarms = {}
    /\ pk = NoMetrics

\* total_start_time, then the fast path that finds no device and the gate
MetricsWebapi ==
    /\ pk.pc = "webapi"
    /\ \E d \in PhaseTicks : pk' = [pk EXCEPT !.pc = "discovery", !.clock = @ + d]
    /\ UNCHANGED <<registry, circuit_breakers, run, alarms>>

\* discovery_start ... metrics.discovered_ms
MetricsDiscovery ==
    /\ pk.pc = "discovery"
    /\ \E d \in PhaseTicks :
         pk' = [pk EXCEPT !.pc = "getinfo", !.clock = @ + d,
                          !.discovered_ms = ElapsedMs(pk.clock + d, pk.clock)]
    /\ UNCHANGED <<registry, circuit_breakers, run, alarms>>

\* getinfo_start ... metrics.getinfo_ms
MetricsGetInfo ==
    /\ pk.pc = "getinfo"
    /\ \E d \in PhaseTicks :
         pk' = [pk EXCEPT !.pc = "adduser", !.clock = @ + d,
                          !.getinfo_ms = ElapsedMs(pk.clock + d, pk.clock)]
    /\ UNCHANGED <<registry, circuit_breakers, run, alarms>>

\* adduser_start ... metrics.adduser_ms
MetricsAddUser ==
    /\ pk.pc = "adduser"
    /\ \E d \in PhaseTicks :
         pk' = [pk EXCEPT !.pc = "cloud_poll", !.clock = @ + d,
                          !.adduser_ms = ElapsedMs(pk.clock + d, pk.clock)]
    /\ UNCHANGED <<registry, circuit_breakers, run, alarms>>

\* the poll; metrics.cloud_visible_ms is taken from total_start_time
MetricsCloudPoll ==
    /\ pk.pc = "cloud_poll"
    /\ \E d \in PhaseTicks :
         pk' = [pk EXCEPT !.pc = "stage", !.clock = @ + d,
                          !.cloud_visible_ms =
                              ElapsedMs(pk.clock + d, pk.total_start_time)]
    /\ UNCHANGED <<registry, circuit_breakers, run, alarms>>

\* debounce and stage_device, before play_start is taken
MetricsStage ==
    /\ pk.pc = "stage"
    /\ \E d \in PhaseTicks : pk' = [pk EXCEPT !.pc = "play", !.clock = @ + d]
    /\ UNCHANGED <<registry, circuit_breakers, run, alarms>>

\* play_start ... metrics.play_ms
MetricsPlay ==
    /\ pk.pc = "play"
    /\ \E d \in PhaseTicks :
         pk' = [pk EXCEPT !.pc = "confirm", !.clock = @ + d,
                          !.play_ms = ElapsedMs(pk.clock + d, pk.clock)]
    /\ UNCHANGED <<registry, circuit_breakers, run, alarms>>

\* the confirmation, then finally: metrics.total_duration_ms
MetricsTotal ==
    /\ pk.pc = "confirm"
    /\ \E d \in PhaseTicks :
         pk' = [pk EXCEPT !.pc = "done", !.clock = @ + d,
                          !.total_duration_ms =
                              ElapsedMs(pk.clock + d, pk.total_start_time)]
    /\ UNCHANGED <<registry, circuit_breakers, run, alarms>>

NextMetrics ==
    \/ MetricsWebapi
    \/ MetricsDiscovery
    \/ MetricsGetInfo
    \/ MetricsAddUser
    \/ MetricsCloudPoll
    \/ MetricsStage
    \/ MetricsPlay
    \/ MetricsTotal

SpecMetrics == InitMetrics /\ [][NextMetrics]_vars

(***************************************************************************)
(* The control path normalisation of src/app/device_registry.py.  A path   *)
(* is a sequence of characters; in the default path the two words stand    *)
(* for their letters.                                                      *)
(***************************************************************************)
MaxCpathLen == 4
CpathAlphabet == {"/", "a", " "}
Cpaths == SeqsUpTo(CpathAlphabet, MaxCpathLen)
DefaultCpathChars == <<"/", "spotifyconnect", "/", "zeroconf">>

\* str.rstrip("/")
RECURSIVE rstrip_slash(_)
rstrip_slash(s) ==
    IF s /= <<>> /\ s[Len(s)] = "/" THEN rstrip_slash(SubSeq(s, 1, Len(s) - 1)) ELSE s

\* the cpath that goes into the getInfo URL
normalize_cpath(c) ==
    LET cpath1 == IF c = <<>> THEN DefaultCpathChars ELSE c
        cpath2 == IF cpath1 = <<"/">> \/ cpath1 = <<>> \/ strip(cpath1) = <<>>
                  THEN DefaultCpathChars ELSE cpath1
        cpath3 == IF Head(cpath2) /= "/" THEN <<"/">> \o cpath2 ELSE cpath2
    IN rstrip_slash(cpath3)

InitCpath ==
    /\ registry = <<>>
    /\ circuit_breakers = <<>>
    /\ run = [t \in Threads |-> IdleRun]
    /\ alarms = {}
    /\ \E c \in Cpaths : pk = [cpath |-> c, result |-> <<>>, done |-> FALSE]

NormalizeCpath ==
    /\ ~pk.done
    /\ pk' = [pk EXCEPT !.result = normalize_cpath(pk.cpath), !.done = TRUE]
    /\ UNCHANGED <<registry, circuit_breakers, run, alarms>>

SpecCpath == InitCpath /\ [][NormalizeCpath]_vars

(***************************************************************************)
(* stage_device and start_play of playback.py on their own, one API call   *)
(* per step, with the calls the API wrapper receives kept in a log.        *)
(* Keyword arguments are sets of <<key, value>> pairs.                     *)
(***************************************************************************)
Volumes == {NoVolume, 0, DefaultVolume, PresetVolume}
RetryDelays == {"0.7", "0.1"}

\* api.put_transfer(device_id=device_id, play=False)
TransferKwargs(device_id) == {<<"device_id", device_id>>, <<"play", "False">>}

\* api.put_volume(device_id=device_id, percent=volume)
VolumeKwargs(device_id, volume) == {<<"device_id", device_id>>, <<"percent", volume>>}

\* play_kwargs with the shuffle key whatever the flag
PlayKwargs_shuffle(device_id, context_uri, retry_404_delay_s, shuffle) ==
    {<<"device_id", device_id>>, <<"context_uri", context_uri>>,
     <<"retry_404_delay_s", retry_404_delay_s>>, <<"shuffle", "True">>}

\* play_kwargs: shuffle is passed only when it is true
PlayKwargs(device_id, context_uri, retry_404_delay_s, shuffle) ==
    {<<"device_id", device_id>>, <<"context_uri", context_uri>>,
     <<"retry_404_delay_s", retry_404_delay_s>>}
        \cup (IF shuffle THEN {<<"shuffle", "True">>} ELSE {})

\* a stage_device that sets the volume whether or not one was given
AfterTransfer_always(volume) == "volume"

\* if volume is not None
AfterTransfer(volume) == IF volume /= NoVolume THEN "volume" ELSE "settle"

NoCall ==
    [fn |-> "", pc |-> "done", device_id |-> "", volume |-> NoVolume,
     context_uri |-> "", retry_404_delay_s |-> "", shuffle |-> FALSE,
     log |-> <<>>, api_raised |-> "", outcome |-> ""]

InitPlayback ==
    /\ registry = <<>>
    /\ circuit_breakers = <<>>
    /\ run = [t \in Threads |-> IdleRun]
    /\ alarms = {}
    /\ \E device_id \in DeviceIds :
         \/ \E volume \in Volumes :
              pk = [NoCall EXCEPT !.fn = "stage_device", !.pc = "transfer",
                                  !.device_id = device_id, !.volume = volume]
         \/ \E retry_404_delay_s \in RetryDelays, shuffle \in BOOLEAN :
              pk = [NoCall EXCEPT !.fn = "start_play", !.pc = "play",
                                  !.device_id = device_id, !.context_uri = ContextUri,
                                  !.retry_404_delay_s = retry_404_delay_s,
                                  !.shuffle = shuffle]

\* api.put_transfer; an error is logged and re-raised
PutTransfer ==
    LET called == [pk EXCEPT !.log = Append(@, [op |-> "put_transfer",
                                                kwargs |-> TransferKwargs(pk.device_id)])]
    IN /\ pk.pc = "transfer"
       /\ \/ pk' = [called EXCEPT !.pc = AfterTransfer(pk.volume)]
          \/ pk' = [called EXCEPT !.pc = "done", !.api_raised = "put_transfer",
                                  !.outcome = "raised"]
       /\ UNCHANGED <<registry, circuit_breakers, run, alarms>>

\* api.put_volume; an error is logged and swallowed
PutVolume ==
    LET called == [pk EXCEPT !.log = Append(@, [op |-> "put_volume",
                                                kwargs |-> VolumeKwargs(pk.device_id,
                                                                        pk.volume)])]
    IN /\ pk.pc = "volume"
       /\ \/ pk' = [called EXCEPT !.pc = "settle"]
          \/ pk' = [called EXCEPT !.pc = "settle", !.api_raised = "put_volume"]
       /\ UNCHANGED <<registry, circuit_breakers, run, alarms>>

\* time.sleep(0.2), then stage_device returns
StageSettled ==
    /\ pk.pc = "settle"
    /\ pk' = [pk EXCEPT !.pc = "done", !.outcome = "returned"]
    /\ UNCHANGED <<registry, circuit_breakers, run, alarms>>

\* api.put_play(**play_kwargs); an error is logged and re-raised
PutPlay ==
    LET called == [pk EXCEPT !.log =
                       Append(@, [op |-> "put_play",
                                  kwargs |-> PlayKwargs(pk.device_id, pk.context_uri,
                                                        pk.retry_404_delay_s, pk.shuffle)])]
    IN /\ pk.pc = "play"
       /\ \/ pk' = [called EXCEPT !.pc = "done", !.outcome = "returned"]
          \/ pk' = [called EXCEPT !.pc = "done", !.api_raised = "put_play",
                                  !.outcome = "raised"]
       /\ UNCHANGED <<registry, circuit_breakers, run, alarms>>

NextPlayback == PutTransfer \/ PutVolume \/ StageSettled \/ PutPlay

SpecPlayback == InitPlayback /\ [][NextPlayback]_vars

(***************************************************************************)
(* The token file and refresh_token_simple / refresh_token_legacy of       *)
(* spotify_client.py.  Each caller loads the token file, tests the expiry, *)
(* posts the refresh request, and writes the token file; nothing in the    *)
(* module serializes two callers.                                          *)
(***************************************************************************)
RefreshMargin == 60           \* seconds before expiry at which a token is refreshed
Nows == {99, 100, 101}        \* time.time()
ExpiresAts == {0, 160}        \* token["expires_at"]; 0 also stands for a missing key
ExpiresIns == {3600}          \* expires_in of a refreshed token
TokenFns == {"refresh_token_simple", "refresh_token_legacy"}

\* None, and the content of a missing or truncated token file
NoToken == [id |-> 0, has_refresh_token |-> FALSE, expires_at |-> 0]

IdleCaller ==
    [fn |-> "", pc |-> "idle", token |-> NoToken, given |-> NoToken,
     new_token |-> NoToken, requested |-> FALSE, wrote |-> FALSE, returned |-> NoToken]

\* not (time.time() <= token.get("expires_at", 0) - 60)
NeedsRefresh(now, token) == ~(now <= token.expires_at - RefreshMargin)

InitToken ==
    /\ registry = <<>>
    /\ circuit_breakers = <<>>
    /\ run = [t \in Threads |-> IdleRun]
    /\ alarms = {}
    /\ \E now \in Nows, expires_at \in ExpiresAts,
          has_refresh_token \in BOOLEAN, env_ok \in BOOLEAN :
         pk = [now |-> now, env_ok |-> env_ok,
               file |-> [id |-> 1, has_refresh_token |-> has_refresh_token,
                         expires_at |-> expires_at],
               writers |-> {},
               caller |-> [t \in Threads |-> IdleCaller]]

SetCaller(t, c) == pk' = [pk EXCEPT !.caller[t] = c]

ReturnToken(c, token) == [c EXCEPT !.pc = "done", !.returned = token]

\* load_token_simple / load_token_legacy; a file another caller has open for
\* writing is empty, json.load fails and the result is None
TokenLoad(t) ==
    /\ pk.caller[t].pc = "idle"
    /\ \E fn \in TokenFns :
         LET token == pk.file
             c == [pk.caller[t] EXCEPT !.fn = fn, !.token = token, !.given = token]
         IN IF token = NoToken
            THEN SetCaller(t, ReturnToken(c, NoToken))
            ELSE SetCaller(t, [c EXCEPT !.pc = "check"])
    /\ UNCHANGED <<registry, circuit_breakers, run, alarms>>

\* the tests of refresh_token_simple and refresh_token_legacy before the request
TokenCheck(t) ==
    LET c == pk.caller[t]
    IN /\ c.pc = "check"
       /\ IF c.fn = "refresh_token_simple"
          THEN IF ~c.token.has_refresh_token
               THEN SetCaller(t, ReturnToken(c, NoToken))
               ELSE IF ~NeedsRefresh(pk.now, c.token)
               THEN SetCaller(t, ReturnToken(c, c.token))
               ELSE IF ~pk.env_ok
               THEN SetCaller(t, ReturnToken(c, NoToken))
               ELSE SetCaller(t, [c EXCEPT !.pc = "request", !.requested = TRUE])
          ELSE IF ~NeedsRefresh(pk.now, c.token)
               THEN SetCaller(t, ReturnToken(c, c.token))
               ELSE IF ~c.token.has_refresh_token \/ ~pk.env_ok
               THEN SetCaller(t, ReturnToken(c, NoToken))
               ELSE SetCaller(t, [c EXCEPT !.pc = "request", !.requested = TRUE])
       /\ UNCHANGED <<registry, circuit_breakers, run, alarms>>

\* the identity provider answers the refresh request, or the request fails
TokenResponse(t) ==
    LET c == pk.caller[t]
    IN /\ c.pc = "request"
       /\ \/ \E expires_in \in ExpiresIns :
               SetCaller(t, [c EXCEPT !.pc = "save",
                                      !.new_token = [id |-> 1 + t,
                                                     has_refresh_token |-> TRUE,
                                                     expires_at |-> pk.now + expires_in]])
          \/ SetCaller(t, ReturnToken(c, NoToken))
       /\ UNCHANGED <<registry, circuit_breakers, run, alarms>>

\* open(TOKEN_FILE, 'w'): the file is truncated
TokenFileOpen(t) ==
    LET c == pk.caller[t]
    IN /\ c.pc = "save"
       /\ pk' = [pk EXCEPT !.file = NoToken, !.writers = @ \cup {t},
                           !.caller[t] = [c EXCEPT !.pc = "writing", !.wrote = TRUE]]
       /\ UNCHANGED <<registry, circuit_breakers, run, alarms>>

\* json.dump and the end of the with block, then return the new token
TokenFileClose(t) ==
    LET c == pk.caller[t]
    IN /\ c.pc = "writing"
       /\ pk' = [pk EXCEPT !.file = c.new_token, !.writers = @ \ {t},
                           !.caller[t] = ReturnToken(c, c.new_token)]
       /\ UNCHANGED <<registry, circuit_breakers, run, alarms>>

StepToken(t) ==
    \/ TokenLoad(t)
    \/ TokenCheck(t)
    \/ TokenResponse(t)
    \/ TokenFileOpen(t)
    \/ TokenFileClose(t)

NextToken == \E t \in Threads : StepToken(t)

SpecToken == InitToken /\ [][NextToken]_vars

(***************************************************************************)
(* DeviceRegistry._extract_friendly_name.  A name is a sequence of         *)
(* characters in which a service-type part ("_spotify-connect",            *)
(* "._tcp.local", ...) is one element; None is the empty sequence.         *)
(***************************************************************************)
GetInfoFields == <<"remoteName", "displayName", "name", "deviceName", "modelDisplayName">>
TxtFields == <<"CN", "Name", "DisplayName", "FriendlyName">>

\* the values a field is given: missing or empty, blank, a padded name of its own
FieldKinds == {"missing", "blank", "name"}
FieldValue(f, kind) ==
    IF kind = "missing" THEN <<>> ELSE IF kind = "blank" THEN <<" ">> ELSE <<" ", f, " ">>

NamePrefixes == {<<>>, <<"a", "b">>, <<" ", "a", "b", "c">>}
NameSuffixes ==
    {<<>>, <<"_spotify-connect", " ">>,
     <<".", "_SPOTIFY-CONNECT", "._tcp.local", ".">>,
     <<"_spotify-connect", ".spotify-connect", "._tcp.local">>}
DiscoveredNames == {p \o s : p \in NamePrefixes, s \in NameSuffixes}

\* len() of a name: a service-type part counts its characters
PartLen(c) ==
    IF c \in {"_spotify-connect", "_SPOTIFY-CONNECT", ".spotify-connect"} THEN 16
    ELSE IF c = "._tcp.local" THEN 11 ELSE 1

RECURSIVE NameLen(_)
NameLen(s) == IF s = <<>> THEN 0 ELSE PartLen(Head(s)) + NameLen(Tail(s))

\* re.IGNORECASE on the service-type parts
FoldCase(c) == IF c = "_SPOTIFY-CONNECT" THEN "_spotify-connect" ELSE c

EndsWith(s, suf) ==
    /\ Len(s) >= Len(suf)
    /\ [i \in 1..Len(suf) |-> FoldCase(s[Len(s) - Len(suf) + i])] = suf

\* re.sub(suf + '$', '', s)
StripSuffix(s, suf) == IF EndsWith(s, suf) THEN SubSeq(s, 1, Len(s) - Len(suf)) ELSE s

\* re.sub(head + r'\._tcp\.local\.?$', '', s)
StripLocal(s, head) ==
    IF EndsWith(s, <<head, "._tcp.local", ".">>)
    THEN StripSuffix(s, <<head, "._tcp.local", ".">>)
    ELSE StripSuffix(s, <<head, "._tcp.local">>)

\* the first field, in order, that is present, non-empty and not blank, stripped
RECURSIVE FirstName(_, _)
FirstName(fields, values) ==
    IF fields = <<>> THEN NoName
    ELSE LET v == values[Head(fields)]
         IN IF v /= <<>> /\ strip(v) /= <<>> THEN strip(v)
            ELSE FirstName(Tail(fields), values)

\* the fields taken in the reverse order
_get_friendly_name_from_device_info_reversed(data) ==
    FirstName([i \in 1..Len(GetInfoFields) |-> GetInfoFields[Len(GetInfoFields) + 1 - i]],
              data)

\* the name of a 200 getInfo response with valid JSON
_get_friendly_name_from_device_info(data) == FirstName(GetInfoFields, data)

_clean_technical_name_to_friendly(technical_name) ==
    IF technical_name = <<>> THEN NoName
    ELSE LET original_name == strip(technical_name)
             cleaned1 == StripLocal(original_name, "_spotify-connect")
             cleaned2 == StripLocal(cleaned1, ".spotify-connect")
             cleaned3 == StripSuffix(cleaned2, <<"_spotify-connect">>)
             cleaned4 == StripSuffix(cleaned3, <<".spotify-connect">>)
             cleaned == strip(cleaned4)
         IN IF cleaned /= <<>> /\ NameLen(cleaned) >= 3 /\ cleaned /= original_name
            THEN cleaned ELSE NoName

_extract_friendly_name(instance_name, txt_records, data) ==
    LET from_info == _get_friendly_name_from_device_info(data)
        from_txt == FirstName(TxtFields, txt_records)
        cleaned_name == _clean_technical_name_to_friendly(instance_name)
    IN IF from_info /= NoName /\ strip(from_info) /= <<>> THEN strip(from_info)
       ELSE IF from_txt /= NoName THEN from_txt
       ELSE IF instance_name = <<>> THEN NoName
       ELSE IF cleaned_name /= NoName /\ cleaned_name /= instance_name THEN cleaned_name
       ELSE instance_name

InitFriendly ==
    /\ registry = <<>>
    /\ circuit_breakers = <<>>
    /\ run = [t \in Threads |-> IdleRun]
    /\ alarms = {}
    /\ \E instance_name \in DiscoveredNames,
          info_kinds \in [Range(GetInfoFields) -> FieldKinds],
          txt_kinds \in [Range(TxtFields) -> FieldKinds] :
         pk = [pc |-> "call", instance_name |-> instance_name,
               txt_records |-> [f \in Range(TxtFields) |-> FieldValue(f, txt_kinds[f])],
               data |-> [f \in Range(GetInfoFields) |-> FieldValue(f, info_kinds[f])],
               friendly_name |-> NoName]

ExtractFriendlyName ==
    /\ pk.pc = "call"
    /\ pk' = [pk EXCEPT !.pc = "done",
                        !.friendly_name =
                            _extract_friendly_name(pk.instance_name, pk.txt_records, pk.data)]
    /\ UNCHANGED <<registry, circuit_breakers, run, alarms>>

NextFriendly == ExtractFriendlyName

SpecFriendly == InitFriendly /\ [][NextFriendly]_vars

(***************************************************************************)
(* DeviceRegistry.discover_devices and its discovery cache                 *)
(***************************************************************************)
cache_ttl == 300              \* self.cache_ttl, seconds
MaxClock == 601               \* time.time() is followed up to here
MaxDiscoverCalls == 3         \* calls of discover_devices in a behaviour
Advances == {299, 300}        \* seconds between two calls

\* a DiscoveryResult; the getInfo response of its device is carried as `data`
DiscoveryResult(ip, port, instance_name) ==
    [ip |-> ip, port |-> port, cpath |-> "", instance_name |-> instance_name,
     txt_records |-> [f \in Range(TxtFields) |-> <<>>],
     data |-> [f \in Range(GetInfoFields) |-> <<>>]]

ResX == DiscoveryResult("10.0.0.7", 4070, <<"x">>)
ResBed == DiscoveryResult("10.0.0.8", 4071, <<"b", "e", "d", "._tcp.local">>)
ResNoIp == DiscoveryResult(NoIp, 4072, <<"n", "o", "i", "p">>)
ResNoPort == DiscoveryResult("10.0.0.9", 0, <<"x">>)
ResNameless == DiscoveryResult("10.0.0.6", 4073, NoName)
DiscoveryResults == {ResX, ResBed, ResNoIp, ResNoPort, ResNameless}

\* what discover_all_connect_devices may return
DiscoveredLists ==
    {<<>>, <<ResX>>, <<ResNoIp, ResBed, ResX>>, <<ResNoPort, ResNameless>>}

NoProfile == DeviceProfile(NoName, NoIp, NoVolume)     \* None

\* a profile made of whatever was resolved
_create_device_profile_any(d) ==
    LET device_name == _extract_friendly_name(d.instance_name, d.txt_records, d.data)
    IN IF device_name = NoName THEN NoProfile
       ELSE [DeviceProfile(device_name, d.ip, DefaultVolume) EXCEPT
               !.instance_name = d.instance_name, !.port = d.port,
               !.cpath = IF d.cpath = "" THEN "/" ELSE d.cpath]

\* None for an incomplete result and for one without a name
_create_device_profile(d) ==
    IF ~is_complete(d) THEN NoProfile
    ELSE LET device_name == _extract_friendly_name(d.instance_name, d.txt_records, d.data)
         IN IF device_name = NoName THEN NoProfile
            ELSE [DeviceProfile(device_name, d.ip, DefaultVolume) EXCEPT
                    !.instance_name = d.instance_name, !.port = d.port,
                    !.cpath = IF d.cpath = "" THEN "/" ELSE d.cpath]

\* the loop of discover_devices: the profiles that were created, in order
RECURSIVE CreateProfiles(_)
CreateProfiles(discovered_devices) ==
    IF discovered_devices = <<>> THEN <<>>
    ELSE LET profile == _create_device_profile(Head(discovered_devices))
             rest == CreateProfiles(Tail(discovered_devices))
         IN IF profile = NoProfile THEN rest ELSE <<profile>> \o rest

ProfileNames(device_profiles) == {device_profiles[i].name : i \in DOMAIN device_profiles}

\* self.device_status[profile.name] = DeviceStatus(...) for every profile; the
\* health probe answers for the names in `responding`
_update_device_status(device_status, device_profiles, responding, current_time) ==
    LET names == ProfileNames(device_profiles)
        LastOf(n) == device_profiles[CHOOSE i \in DOMAIN device_profiles :
                         /\ device_profiles[i].name = n
                         /\ \A j \in DOMAIN device_profiles :
                              device_profiles[j].name = n => j <= i]
    IN [n \in DOMAIN device_status \cup names |->
          IF n \in names
          THEN [ip |-> LastOf(n).ip, port |-> LastOf(n).port,
                is_online |-> n \in responding, last_seen |-> current_time]
          ELSE device_status[n]]

\* no call of get_or_create_device_profile yet
NoLookup ==
    [called |-> FALSE, device_name |-> NoName, discovered |-> FALSE,
     result |-> DiscoveryResult(NoIp, 0, NoName), returned |-> NoProfile]

\* self.discovery_cache = {}
NoCache == [has |-> FALSE, devices |-> <<>>, last_discovery |-> 0]

NoDiscoverCall ==
    [called |-> FALSE, force_refresh |-> FALSE, current_time |-> 0,
     cache_before |-> NoCache, status_before |-> <<>>, discover_all |-> FALSE,
     ok |-> FALSE, results |-> <<>>, discovered |-> <<>>, returned |-> <<>>]

\* a cache that is still valid at the age of cache_ttl
CacheValid_le(cache, force_refresh, current_time) ==
    /\ ~force_refresh
    /\ cache.has
    /\ current_time - cache.last_discovery <= cache_ttl

\* not force_refresh and 'last_discovery' in self.discovery_cache and
\* current_time - self.discovery_cache['last_discovery'] < self.cache_ttl
CacheValid(cache, force_refresh, current_time) ==
    /\ ~force_refresh
    /\ cache.has
    /\ current_time - cache.last_discovery < cache_ttl

InitDiscover ==
    /\ registry = <<>>
    /\ circuit_breakers = <<>>
    /\ run = [t \in Threads |-> IdleRun]
    /\ alarms = {}
    /\ pk = [clock |-> 0, calls |-> 0, discovery_cache |-> NoCache,
             device_status |-> <<>>, last |-> NoDiscoverCall, lookup |-> NoLookup]

\* time passes between two calls
ClockAdvance ==
    /\ \E d \in Advances :
         /\ pk.clock + d <= MaxClock
         /\ pk' = [pk EXCEPT !.clock = @ + d]
    /\ UNCHANGED <<registry, circuit_breakers, run, alarms>>

\* a handler that drops the cache when the discovery raised
DiscoveryRaised_clears(p, call, took) ==
    [p EXCEPT !.clock = @ + took, !.calls = @ + 1, !.discovery_cache = NoCache,
              !.last = [call EXCEPT !.discover_all = TRUE]]

\* except Exception: log and return []; the cache and the status are as they were
DiscoveryRaised(p, call, took) ==
    [p EXCEPT !.clock = @ + took, !.calls = @ + 1,
              !.last = [call EXCEPT !.discover_all = TRUE]]

\* discover_devices(force_refresh): the cached list, or discover_all_connect_devices,
\* a profile for each result that yields one, a new cache stamped with current_time
\* and the status of each profile; [] and nothing written when the discovery raised
discover_devices ==
    /\ pk.calls < MaxDiscoverCalls
    /\ \E force_refresh \in BOOLEAN :
         LET current_time == pk.clock
             call == [NoDiscoverCall EXCEPT !.called = TRUE,
                                            !.force_refresh = force_refresh,
                                            !.current_time = current_time,
                                            !.cache_before = pk.discovery_cache,
                                            !.status_before = pk.device_status]
         IN IF CacheValid(pk.discovery_cache, force_refresh, current_time)
            THEN pk' = [pk EXCEPT !.calls = @ + 1,
                                  !.last = [call EXCEPT
                                              !.returned = pk.discovery_cache.devices]]
            ELSE \E took \in {0, 1} :
                   /\ pk.clock + took <= MaxClock
                   /\ \/ \E discovered_devices \in DiscoveredLists :
                           LET device_profiles == CreateProfiles(discovered_devices)
                           IN \E responding \in SUBSET ProfileNames(device_profiles) :
                                pk' = [pk EXCEPT
                                         !.clock = @ + took, !.calls = @ + 1,
                                         !.discovery_cache =
                                             [has |-> TRUE, devices |-> device_profiles,
                                              last_discovery |-> current_time],
                                         !.device_status =
                                             _update_device_status(@, device_profiles,
                                                                   responding,
                                                                   current_time + took),
                                         !.last = [call EXCEPT
                                                     !.discover_all = TRUE,
                                                     !.ok = TRUE,
                                                     !.results = discovered_devices,
                                                     !.discovered = device_profiles,
                                                     !.returned = device_profiles]]
                      \/ pk' = DiscoveryRaised(pk, call, took)
    /\ UNCHANGED <<registry, circuit_breakers, run, alarms>>

NextDiscover == ClockAdvance \/ discover_devices

SpecDiscover == InitDiscover /\ [][NextDiscover]_vars

\* config.add_or_update_device_profile: the targets are keyed by profile name
add_or_update_device_profile(reg, profile) ==
    [n \in DOMAIN reg \cup {profile.name} |-> IF n = profile.name THEN profile ELSE reg[n]]

\* get_or_create_device_profile(device_name): the profile of that name, or one made
\* of a complete mdns_discover_connect result and added to the targets, or None
get_or_create_device_profile ==
    /\ \E device_name \in Targets :
         LET call == [NoLookup EXCEPT !.called = TRUE, !.device_name = device_name]
         IN IF HasProfile(registry, device_name)
            THEN /\ pk' = [pk EXCEPT !.lookup = [call EXCEPT
                                                   !.returned = registry[device_name]]]
                 /\ UNCHANGED registry
            ELSE \E result \in DiscoveryResults :
                   LET profile == IF is_complete(result)
                                  THEN _create_device_profile(result)
                                  ELSE NoProfile
                   IN /\ pk' = [pk EXCEPT !.lookup = [call EXCEPT !.discovered = TRUE,
                                                                   !.result = result,
                                                                   !.returned = profile]]
                      /\ registry' = IF profile /= NoProfile
                                     THEN add_or_update_device_profile(registry, profile)
                                     ELSE registry
    /\ UNCHANGED <<circuit_breakers, run, alarms>>

\* the registry serving the web interface while the scheduler runs an alarm
InitIncomplete ==
    /\ \E ip \in {KnownIp, NoIp}, port \in ProfilePorts :
         registry = [n \in {TargetK} |->
                       [DeviceProfile(TargetK, ip, PresetVolume) EXCEPT !.port = port]]
    /\ circuit_breakers = [n \in {TargetK} |-> NewBreaker]
    /\ run = [t \in Threads |-> IdleRun]
    /\ \E target_name \in Targets : alarms = {target_name}
    /\ pk = [clock |-> 0, calls |-> 0, discovery_cache |-> NoCache,
             device_status |-> <<>>, last |-> NoDiscoverCall, lookup |-> NoLookup]

\* discover_devices shares no state with a run or with the targets, so its calls
\* are followed on their own, from the state in which no alarm has fired
NextIncomplete ==
    \/ pk.calls = 0 /\ get_or_create_device_profile
    \/ pk.calls = 0 /\ StepHandshake(1)
    \/ run[1].pc = "idle" /\ ~pk.lookup.called /\ discover_devices

SpecIncomplete == InitIncomplete /\ [][NextIncomplete]_vars
(***************************************************************************)
(* SpotifyCrypto.generate_encrypted_blob.  Bytes are 3-bit values; the     *)
(* library primitives (DH exchange, HMAC-SHA1, AES-128-CTR) are modelled   *)
(* by their contracts: a keyed digest of 20 bytes, and a keystream of the  *)
(* key and the counter block that is XORed onto the data.                  *)
(***************************************************************************)
ByteValues == 0..7
Usernames == {<<"a">>, <<"a", "b">>, <<"e'">>}
Passwords == {<<"b">>, <<"e'", "a">>, <<":", "b">>}
OAuthTokens == {"token1", "token2"}
PrivateKeys == {2, 3}
DevicePublicKeys == {5, 7}
Ivs == {[i \in 1..16 |-> 0], [i \in 1..16 |-> (3 * i) % 8]}

\* str.encode('utf-8'); "e'" stands for a character of two bytes
Utf8Char(c) ==
    IF c = "a" THEN <<1>> ELSE IF c = "b" THEN <<2>> ELSE IF c = ":" THEN <<3>> ELSE <<6, 5>>

RECURSIVE Utf8(_)
Utf8(s) == IF s = <<>> THEN <<>> ELSE Utf8Char(Head(s)) \o Utf8(Tail(s))

RECURSIVE SumBytes(_)
SumBytes(s) == IF s = <<>> THEN 0 ELSE Head(s) + SumBytes(Tail(s))

XorByte(a, b) ==
    ((a + b) % 2) + 2 * (((a \div 2) + (b \div 2)) % 2) + 4 * (((a \div 4) + (b \div 4)) % 2)

\* private_key.exchange(device_public_key), in a small group
compute_shared_secret(private_key, device_public_key) == (device_public_key ^ private_key) % 23

\* hmac.new(key, msg, hashlib.sha1).digest(): 20 bytes
HmacSha1(key, msg) == [i \in 1..20 |-> (key * (i + 1) + SumBytes(msg) * (i + 2) + Len(msg)) % 8]

\* the AES-CTR keystream of the first counter block
Keystream(key, iv) == [i \in 1..16 |-> (SumBytes(key) + key[i] * (iv[i] + 1) + iv[i] + i) % 8]

\* Cipher(algorithms.AES(key), modes.CTR(iv)): encryptor and decryptor alike
AesCtr(key, iv, data) == [i \in 1..Len(data) |-> XorByte(data[i], Keystream(key, iv)[i])]

\* an encryption key taken from the end of the digest
derive_encryption_keys_tail(shared_secret, username) ==
    SubSeq(HmacSha1(shared_secret, Utf8(username)), 5, 20)

\* encryption_key = hmac_key[:16]
derive_encryption_keys(shared_secret, username) ==
    SubSeq(HmacSha1(shared_secret, Utf8(username)), 1, 16)

\* f"{username}:{password}".encode('utf-8') under AES-128-CTR
encrypt_credentials(username, password, encryption_key, iv) ==
    AesCtr(encryption_key, iv, Utf8(username \o <<":">> \o password))

base64_b64encode(bytes) == [base64 |-> bytes]
base64_b64decode(text) == text.base64

\* generate_encrypted_blob with the random choices (key pair, device key, iv) given
generate_encrypted_blob(username, password, token, private_key, device_public_key, iv) ==
    LET shared_secret == compute_shared_secret(private_key, device_public_key)
        encryption_key == derive_encryption_keys(shared_secret, username)
        encrypted_data == encrypt_credentials(username, password, encryption_key, iv)
    IN base64_b64encode(iv \o encrypted_data)

InitCrypto ==
    /\ registry = <<>>
    /\ circuit_breakers = <<>>
    /\ run = [t \in Threads |-> IdleRun]
    /\ alarms = {}
    /\ \E username \in Usernames, password \in Passwords, private_key \in PrivateKeys,
          device_public_key \in DevicePublicKeys, iv \in Ivs :
         pk = [username |-> username, password |-> password, private_key |-> private_key,
               device_public_key |-> device_public_key, iv |-> iv, blobs |-> <<>>]

\* one call, with any token, with the same keys and iv
GenerateBlob ==
    /\ Len(pk.blobs) < 2
    /\ \E token \in OAuthTokens :
         pk' = [pk EXCEPT !.blobs =
                   Append(@, [token |-> token,
                              blob |-> generate_encrypted_blob(pk.username, pk.password, token,
                                                               pk.private_key,
                                                               pk.device_public_key, pk.iv)])]
    /\ UNCHANGED <<registry, circuit_breakers, run, alarms>>

NextCrypto == GenerateBlob

SpecCrypto == InitCrypto /\ [][NextCrypto]_vars

(***************************************************************************)
(* Properties                                                              *)
(***************************************************************************)
Finished(r) == r.pc = "done"
Active(r) == r.pc \notin {"idle", "done"}
SuccessBranches == {Branch("primary"), Branch("primary_ip_wakeup")}
ReturnedBranches == SuccessBranches \cup {Branch("webapi_direct"), Branch("fallback")}

\* the names a device may carry to match pk.target_name, read off the profile
PickMatchingNames ==
    IF HasProfile(registry, pk.target_name)
    THEN LET p == registry[pk.target_name]
         IN {p.name, p.instance_name} \cup Range(p.spotify_device_names)
    ELSE {pk.target_name}

\* C1: _pick_device returns a device only when its name, lower-cased and stripped,
\* equals one of the profile's matching names (name, instance_name, a learned
\* name), or the target name when there is no profile, lower-cased and stripped;
\* a device whose name merely contains, or is contained in, one is not returned
C1_ExactMatchOnly ==
    (pk.done /\ pk.result /= NoDevice) =>
        /\ pk.result \in Range(pk.devices)
        /\ \E n \in PickMatchingNames :
             n /= NoName /\ Normalize(pk.result.name) = Normalize(n)

\* a device whose name contains a matching name comes first and is passed over
\* for the exact match behind it
C1_Witness ==
    /\ pk.done
    /\ Len(pk.devices) = 2
    /\ pk.result = pk.devices[2]
    /\ pk.devices[1].name /= pk.devices[2].name
    /\ pk.result.name /= pk.target_name
    /\ Contains(Normalize(pk.devices[1].name), Normalize(pk.result.name))

\* C2: once the fallback has failed, the run is over: the terminal error is
\* raised with branch failed:<reason> and no later phase is entered
C2_FailedFallbackEndsRun ==
    \A t \in Threads :
        run[t].fallback_failed =>
            /\ Finished(run[t])
            /\ run[t].outcome = "raised"
            /\ run[t].branch = FailedBranch(run[t].reason)

C4_ConfirmedBeforeDeadline ==
    \A t \in Threads :
        (Finished(run[t]) /\ run[t].branch \in SuccessBranches) => run[t].confirm_seen

\* C4: a run succeeds on primary or primary_ip_wakeup (state PLAYING,
\* record_success called) only if a CurrentPlayback call issued before the
\* confirmation deadline reported the device's id; a confirmation loop that
\* ends without it invokes the fallback with reason play_not_confirmed_t2
C4_ConfirmedByCallBeforeDeadline ==
    \A t \in Threads :
        /\ (Finished(run[t]) /\ run[t].branch \in SuccessBranches) =>
              /\ run[t].confirm_issued
              /\ run[t].confirmed_id = run[t].cloud_device.id
              /\ run[t].state = "PLAYING"
              /\ run[t].calls["record_success"] = 1
        /\ run[t].unconfirmed =>
              \/ run[t].pc = "failover" /\ run[t].reason = "play_not_confirmed_t2"
              \/ run[t].calls["_failover"] >= 1

\* a success whose confirming response came in after the deadline
C4_Witness ==
    \E t \in Threads :
        /\ Finished(run[t])
        /\ run[t].branch = Branch("primary")
        /\ run[t].confirm_issued
        /\ ~run[t].confirm_seen

\* C5: when the first Devices() response contains a matching device the run ends
\* with branch webapi_direct after exactly one Devices, one Transfer(play=false),
\* one Volume with the preset, one Play with the context URI and one
\* CurrentPlayback confirming the device, and no mDNS, getInfo or addUser
C5_FastPath ==
    \A t \in Threads :
        (Finished(run[t]) /\ run[t].first_matched) =>
            /\ run[t].branch = Branch("webapi_direct")
            /\ \A op \in {"Devices", "Transfer", "Volume", "Play", "CurrentPlayback"} :
                 run[t].calls[op] = 1
            /\ \A op \in {"mdns_discover_connect", "get_info", "add_user"} :
                 run[t].calls[op] = 0
            /\ run[t].args.transfer = run[t].cloud_device.id
            /\ run[t].args.play = run[t].cloud_device.id
            /\ run[t].args.uri = ContextUri
            /\ run[t].confirmed_id = run[t].cloud_device.id

\* C6: no two play_alarm runs for the same target are in progress at once
C6_OneRunPerTarget ==
    \A t1, t2 \in Threads :
        (t1 /= t2 /\ Active(run[t1]) /\ Active(run[t2])) =>
            run[t1].target_name /= run[t2].target_name

\* C7: a run that finds the breaker open at the gate calls no IP wake-up, mDNS,
\* getInfo, addUser or further Devices, and goes to the fallback with reason
\* circuit_breaker_open
C7_OpenBreakerBypasses ==
    \A t \in Threads :
        run[t].bypassed =>
            /\ \A op \in {"_wake_device_via_ip", "mdns_discover_connect", "get_info",
                          "add_user", "Devices", "CurrentPlayback"} :
                 run[t].calls[op] = run[t].gate_calls[op]
            /\ run[t].reason = "circuit_breaker_open"
            /\ \/ run[t].pc = "failover"
               \/ /\ Finished(run[t])
                  /\ run[t].calls["_failover"] = 1
                  /\ run[t].branch \in {Branch("fallback"),
                                        FailedBranch("circuit_breaker_open")}

\* a bypassing run that the fallback completed
C7_Witness ==
    \E t \in Threads :
        /\ run[t].bypassed
        /\ Finished(run[t])
        /\ run[t].branch = Branch("fallback")
        /\ run[t].failures_at_start >= FailureThreshold

\* C8: a run whose playback was not confirmed by the deadline has incremented
\* the target's breaker failure_count, whatever the fallback did
C8_UnconfirmedCountsAsFailure ==
    \A t \in Threads :
        (Finished(run[t]) /\ run[t].unconfirmed) =>
            /\ run[t].calls["record_failure"] >= 1
            /\ FailureCount(circuit_breakers, run[t].target_name)
                   > run[t].failures_at_start

\* C9: after an error raised by Transfer, Play, mDNS discovery or the token
\* request, IP wake-up branch included, the run has recorded one breaker failure
\* and gone to the fallback
C9_ErrorRecordsFailureThenFallback ==
    \A t \in Threads :
        run[t].raised_in /= "" =>
            /\ run[t].calls["record_failure"] = 1
            /\ run[t].region = "handler"
            /\ run[t].pc = "failover" \/ run[t].calls["_failover"] >= 1

\* C10 as stated: the poll goes on to stage a device only if a Devices() response
\* containing a match arrived before total_poll_deadline_s elapsed
C10_MatchSeenBeforeDeadline ==
    \A t \in Threads : run[t].pc = "stage" => run[t].poll_seen

\* the names the target's profile matched when the poll began
PollMatchingNames(t) ==
    {n \in {run[t].target_name, TargetOf(run[t], registry).instance_name}
              \cup Range(run[t].poll_names) : n /= NoName}

\* C10: the poll goes on to stage a device only if a Devices() call issued before
\* total_poll_deadline_s elapsed returned a match; otherwise the run invokes the
\* fallback with reason not_in_devices_by_deadline once the deadline has passed,
\* with no Transfer or Play issued and no name learned since the poll began; a
\* device whose normalised name is not among the profile's matching names is
\* neither matched nor learned
C10_MatchFromCallBeforeDeadline ==
    \A t \in Threads :
        /\ run[t].pc = "stage" =>
              /\ run[t].poll_issued
              /\ run[t].cloud_device /= NoDevice
              /\ Normalize(run[t].cloud_device.name)
                    \in {Normalize(n) : n \in PollMatchingNames(t)}
              /\ Range(TargetOf(run[t], registry).spotify_device_names)
                    \subseteq Range(run[t].poll_names) \cup {run[t].cloud_device.name}
        /\ (run[t].pc = "failover" /\ run[t].reason = "not_in_devices_by_deadline") =>
              /\ run[t].poll_expired
              /\ run[t].cloud_device = NoDevice
              /\ run[t].calls["Transfer"] = run[t].poll_calls["Transfer"]
              /\ run[t].calls["Play"] = run[t].poll_calls["Play"]
              /\ TargetOf(run[t], registry).spotify_device_names = run[t].poll_names

\* the deadline passed while only errors and non-matching lists came back
C10_Witness ==
    \E t \in Threads :
        /\ run[t].pc = "failover"
        /\ run[t].reason = "not_in_devices_by_deadline"
        /\ run[t].poll_expired
        /\ run[t].calls["Devices"] > run[t].poll_calls["Devices"]


\* the profiles the orchestrator holds: the registry's, and each run's synthesized one
Profiles == {registry[n] : n \in DOMAIN registry} \cup {run[t].local_target : t \in Threads}

NoDuplicates(s) == \A i, j \in 1..Len(s) : s[i] = s[j] => i = j

\* C11: learning is idempotent: whatever runs have been made, no profile's
\* spotify_device_names holds the same name twice, so learning a name that is
\* already there leaves the list as it was
C11_LearningIdempotent ==
    \A p \in Profiles : NoDuplicates(p.spotify_device_names)

\* a run that matched the same device on the fast path and again after the IP
\* wake-up: the second learning found the name already there
C11_Witness ==
    \E t \in Threads :
        /\ run[t].pc = "ipw_stage"
        /\ run[t].first_matched
        /\ registry[run[t].target_name].spotify_device_names = <<run[t].cloud_device.name>>

\* q is p after one learning step: a name that was not in spotify_device_names,
\* the name of the cloud device a run has just matched, is appended; nothing else
LearnedOne(p, q) ==
    /\ Len(q.spotify_device_names) = Len(p.spotify_device_names) + 1
    /\ LET learned == q.spotify_device_names[Len(q.spotify_device_names)]
       IN /\ q = [p EXCEPT !.spotify_device_names = Append(@, learned)]
          /\ learned \notin Range(p.spotify_device_names)
          /\ \E t \in Threads : run'[t].cloud_device.name = learned

\* q is p with its empty instance_name set by a run that is in mDNS discovery
InstanceNameSet(p, q) ==
    /\ p.instance_name = NoName
    /\ q.instance_name /= NoName
    /\ q = [p EXCEPT !.instance_name = q.instance_name]
    /\ \E t \in Threads : run[t].pc = "discovery" /\ run'[t].pc = "getinfo"

\* C12 as stated: the only write a step makes to a registry profile is the
\* append of a matched, not yet present cloud name to spotify_device_names;
\* name, instance_name, ip, port, cpath and volume_preset are never written
C12_OnlyLearningWrites ==
    [][\A n \in DOMAIN registry :
          /\ n \in DOMAIN registry'
          /\ registry'[n] = registry[n] \/ LearnedOne(registry[n], registry'[n])]_vars

\* C12: a step writes a registry profile in two ways only: it appends a matched,
\* not yet present cloud name to spotify_device_names, or, in mDNS discovery, it
\* sets an instance_name that was empty; name, ip, port, cpath and volume_preset
\* are never written
C12_LearningAndInstanceNameWrites ==
    [][\A n \in DOMAIN registry :
          /\ n \in DOMAIN registry'
          /\ \/ registry'[n] = registry[n]
             \/ LearnedOne(registry[n], registry'[n])
             \/ InstanceNameSet(registry[n], registry'[n])]_vars

\* discovery has stored the instance_name it found, and a name has been learned
C12_Witness ==
    \E t \in Threads :
        /\ run[t].pc = "stage"
        /\ HasProfile(registry, run[t].target_name)
        /\ registry[run[t].target_name].instance_name /= NoName
        /\ registry[run[t].target_name].spotify_device_names = <<run[t].cloud_device.name>>
        /\ run[t].failures_at_start = 0
        /\ ~run[t].first_matched

\* the threads that have called the breaker methods for `name`
CallersOf(name) == {t \in Threads : run[t].target_name = name}

RECURSIVE SumCalls(_, _)
SumCalls(S, op) ==
    IF S = {} THEN 0
    ELSE LET t == CHOOSE x \in S : TRUE
         IN run[t].calls[op] + SumCalls(S \ {t}, op)

\* C13: under concurrent runs no breaker update is lost: whenever no call for a
\* device is in progress and record_success was never called for it, its
\* failure_count is the number of record_failure calls made for it, a lazily
\* created entry included
C13_NoBreakerUpdateLost ==
    \A name \in Targets :
        (/\ \A t \in CallersOf(name) : run[t].pc = "idle"
         /\ SumCalls(CallersOf(name), "record_success") = 0
         /\ SumCalls(CallersOf(name), "record_failure") > 0) =>
            FailureCount(circuit_breakers, name)
                = SumCalls(CallersOf(name), "record_failure")

\* thread t has completed a call of `op` for `name` in this step
Completes(t, name, op) ==
    run'[t].target_name = name /\ run'[t].calls[op] > run[t].calls[op]

\* C14: for each device, a record_failure strictly increases failure_count, and
\* failure_count goes down only to 0 and only in a step that calls record_success
\* (from _record_success or reset_circuit_breaker); reset_circuit_breaker on a
\* name with no breaker raises and changes no breaker
C14_FailureCountMonotone ==
    [][/\ \A name \in DOMAIN circuit_breakers :
            /\ name \in DOMAIN circuit_breakers'
            /\ (\E t \in Threads : Completes(t, name, "record_failure")) =>
                  circuit_breakers'[name].failure_count
                      > circuit_breakers[name].failure_count
            /\ circuit_breakers'[name].failure_count
                   < circuit_breakers[name].failure_count =>
                  /\ circuit_breakers'[name].failure_count = 0
                  /\ \E t \in Threads : Completes(t, name, "record_success")
       /\ \A t \in Threads :
            (run'[t] /= run[t] /\ run'[t].reason = "reset_circuit_breaker"
               /\ run'[t].outcome = "raised") =>
                  circuit_breakers' = circuit_breakers]_vars

\* C15: every play_alarm run that has started returns or raises, whatever the
\* collaborators answer, as long as the thread keeps running
C15_RunTerminates ==
    \A t \in Threads : Active(run[t]) ~> Finished(run[t])

\* a run that ended after a poll in which every Devices() call failed or missed
C15_Witness ==
    \E t \in Threads :
        /\ Finished(run[t])
        /\ run[t].reason = "not_in_devices_by_deadline"
        /\ run[t].poll_expired
        /\ run[t].calls["Devices"] = CountCap

\* C16: the PhaseMetrics of a successful run are ordered: discovered_ms <=
\* getinfo_ms <= adduser_ms <= cloud_visible_ms <= play_ms <= total_duration_ms
C16_MetricsOrdered ==
    pk.pc = "done" =>
        /\ pk.discovered_ms <= pk.getinfo_ms
        /\ pk.getinfo_ms <= pk.adduser_ms
        /\ pk.adduser_ms <= pk.cloud_visible_ms
        /\ pk.cloud_visible_ms <= pk.play_ms
        /\ pk.play_ms <= pk.total_duration_ms

\* C17: for every input cpath the normalised control path starts with "/", does
\* not end with "/", and is /spotifyconnect/zeroconf when the input is empty or "/"
C17_CpathNormalized ==
    pk.done =>
        /\ pk.result /= <<>>
        /\ Head(pk.result) = "/"
        /\ pk.result[Len(pk.result)] /= "/"
        /\ pk.cpath \in {<<>>, <<"/">>} => pk.result = DefaultCpathChars

\* C18: stage_device issues exactly one Transfer(device_id, play=false), first;
\* when a volume is given and the Transfer has returned, exactly one
\* Volume(device_id, volume) follows it; when volume is None there is no Volume
C18_StageDeviceCalls ==
    (pk.fn = "stage_device" /\ pk.pc = "done") =>
        LET transfer == [op |-> "put_transfer",
                         kwargs |-> {<<"device_id", pk.device_id>>, <<"play", "False">>}]
            volume == [op |-> "put_volume",
                       kwargs |-> {<<"device_id", pk.device_id>>, <<"percent", pk.volume>>}]
        IN IF pk.volume /= NoVolume /\ pk.api_raised /= "put_transfer"
           THEN pk.log = <<transfer, volume>>
           ELSE pk.log = <<transfer>>

\* a staging with volume 0, which is a volume: Transfer, then Volume
C18_Witness ==
    /\ pk.fn = "stage_device"
    /\ pk.pc = "done"
    /\ pk.volume = 0
    /\ Len(pk.log) = 2
    /\ pk.log[2].op = "put_volume"

\* C20: start_play calls put_play exactly once, with device_id, context_uri and
\* retry_404_delay_s, and with shuffle only when shuffle is true; it raises
\* exactly when put_play raised
C20_StartPlayCalls ==
    (pk.fn = "start_play" /\ pk.pc = "done") =>
        /\ Len(pk.log) = 1
        /\ pk.log[1].op = "put_play"
        /\ pk.log[1].kwargs =
             IF pk.shuffle
             THEN {<<"device_id", pk.device_id>>, <<"context_uri", pk.context_uri>>,
                   <<"retry_404_delay_s", pk.retry_404_delay_s>>, <<"shuffle", "True">>}
             ELSE {<<"device_id", pk.device_id>>, <<"context_uri", pk.context_uri>>,
                   <<"retry_404_delay_s", pk.retry_404_delay_s>>}
        /\ pk.outcome = (IF pk.api_raised = "put_play" THEN "raised" ELSE "returned")

\* put_play raised on a call without shuffle, and start_play raised in turn
C20_Witness ==
    /\ pk.fn = "start_play"
    /\ pk.pc = "done"
    /\ ~pk.shuffle
    /\ pk.api_raised = "put_play"
    /\ pk.outcome = "raised"

StagePcs == {"webapi_stage", "ipw_stage", "stage"}
PlayPcs == {"webapi_play", "ipw_play", "play"}

\* C19: a staging whose Volume call failed returns normally: the run is staged
\* and at its Play step, and nothing was recorded on the breaker; a staging
\* whose Transfer failed does not get to Play and made no Volume call
C19_VolumeErrorNonFatal ==
    [][\A t \in Threads :
         (run[t].pc \in StagePcs /\ run'[t] /= run[t]) =>
            /\ run'[t].volume_failed =>
                 /\ run'[t].pc \in PlayPcs
                 /\ run'[t].state = "STAGED"
                 /\ run'[t].raised_in = run[t].raised_in
                 /\ run'[t].calls["record_failure"] = run[t].calls["record_failure"]
                 /\ circuit_breakers' = circuit_breakers
            /\ run'[t].pc \notin PlayPcs =>
                 /\ run'[t].calls["Volume"] = run[t].calls["Volume"]
                 /\ run'[t].args.volume_id = run[t].args.volume_id
                 /\ ~run'[t].volume_failed]_vars

\* a run at the Play step of the wake sequence after a staging whose Volume
\* call failed, with the breaker as it was when the run started
C19_Witness ==
    \E t \in Threads :
        /\ run[t].pc = "play"
        /\ run[t].volume_failed
        /\ run[t].calls["Volume"] >= 1
        /\ run[t].calls["record_failure"] = 0
        /\ FailureCount(circuit_breakers, run[t].target_name) = run[t].failures_at_start

\* C21: discover_devices returns the cached list without discover_all_connect_devices
\* exactly when the call is not forced, a discovery has been cached and the cache
\* is younger than 300 s; otherwise it discovers, and on success the cache holds
\* the new profiles stamped with the time of the call
C21_CacheHitExactly ==
    pk.last.called =>
        LET c == pk.last
            fresh == /\ ~c.force_refresh
                     /\ c.cache_before.has
                     /\ c.current_time - c.cache_before.last_discovery < 300
        IN /\ fresh <=> ~c.discover_all
           /\ fresh => /\ c.returned = c.cache_before.devices
                       /\ pk.discovery_cache = c.cache_before
           /\ (~fresh /\ c.ok) =>
                  /\ c.returned = c.discovered
                  /\ pk.discovery_cache = [has |-> TRUE, devices |-> c.discovered,
                                           last_discovery |-> c.current_time]
           /\ (~fresh /\ ~c.ok) =>
                  /\ c.returned = <<>>
                  /\ pk.discovery_cache = c.cache_before

\* an unforced call on a cache exactly 300 s old, which discovers again
C21_Witness ==
    /\ pk.last.called
    /\ ~pk.last.force_refresh
    /\ pk.last.cache_before.has
    /\ pk.last.current_time - pk.last.cache_before.last_discovery = 300
    /\ pk.last.discover_all
    /\ pk.last.ok

\* C22: a call given a token with now <= expires_at - 60 returns that token
\* without a refresh request and without writing the token file; a call given a
\* token with now > expires_at - 60 returns the refreshed token or no token
C22_RefreshExactlyWhenDue ==
    \A t \in Threads :
        LET c == pk.caller[t]
        IN (c.pc = "done" /\ c.given /= NoToken) =>
              IF pk.now <= c.given.expires_at - 60
              THEN c.returned = c.given /\ ~c.requested /\ ~c.wrote
              ELSE c.returned = NoToken
                     \/ (c.requested /\ c.returned = c.new_token /\ c.returned /= c.given)

\* C23: at most one refresh request is in flight at any time, and at most one
\* caller has the token file open for writing
C23_SingleFlight ==
    /\ Cardinality({t \in Threads : pk.caller[t].pc = "request"}) <= 1
    /\ Cardinality(pk.writers) <= 1

\* the indexes of the fields whose value is not blank
NonBlank(fields, values) == {i \in 1..Len(fields) : strip(values[fields[i]]) /= <<>>}
Least(S) == CHOOSE i \in S : \A j \in S : i <= j

ServiceSuffixes ==
    {<<"_spotify-connect">>, <<".spotify-connect">>,
     <<"_spotify-connect", "._tcp.local">>, <<"_spotify-connect", "._tcp.local", ".">>,
     <<".spotify-connect", "._tcp.local">>, <<".spotify-connect", "._tcp.local", ".">>}

\* the places where a name can be cut so that what is cut off is made of
\* service-type parts and ends the name with a service-type suffix
Cuts(s) ==
    {k \in 0..(Len(s) - 1) :
        /\ \E suf \in ServiceSuffixes : EndsWith(s, suf)
        /\ \A i \in (k + 1)..Len(s) :
             FoldCase(s[i]) \in UNION {Range(suf) : suf \in ServiceSuffixes}}

PickMatches ==
    {i \in 1..Len(pk.devices) :
        /\ pk.devices[i].name /= NoName
        /\ \E n \in PickMatchingNames :
             n /= NoName /\ Normalize(pk.devices[i].name) = Normalize(n)}

\* C26: _pick_device returns the first matching device in the order of the list;
\* it returns None exactly when no device matches or the list or the target
\* name is empty
C26_FirstMatchInOrder ==
    pk.done =>
        IF pk.devices = <<>> \/ pk.target_name = NoName \/ PickMatches = {}
        THEN pk.result = NoDevice
        ELSE pk.result = pk.devices[Least(PickMatches)]

\* two devices match and the first of them is returned
C26_Witness ==
    /\ pk.done
    /\ PickMatches = {1, 2}
    /\ pk.devices[1].name /= pk.devices[2].name
    /\ pk.result = pk.devices[1]

\* the run is in the IP wake-up branch with a matching device in hand
InIpWakeMatch(r) ==
    \/ r.pc \in {"ipw_stage", "ipw_play", "ipw_confirm"}
    \/ r.pc \in {"verify", "verify_ret", "failover"} /\ r.region = "ipwake"

\* from there the run does not go to mDNS discovery
StaysOffDiscovery(t) == InIpWakeMatch(run[t]) => run'[t].pc /= "discovery"

\* the confirmation ends the run with branch primary_ip_wakeup and a record_success
IpWakeConfirmedEnds(t) ==
    (/\ run[t].pc = "verify_ret"
     /\ run[t].region = "ipwake"
     /\ run[t].verify_result
     /\ run'[t] /= run[t]) =>
        /\ run'[t].pc = "done"
        /\ run'[t].outcome = "returned"
        /\ run'[t].branch = Branch("primary_ip_wakeup")
        /\ run'[t].calls["mdns_discover_connect"] = 0
        /\ run'[t].calls["get_info"] = 0
        /\ run'[t].calls["add_user"] = 0
        /\ run'[t].calls = Called(run[t].calls, "record_success")
        /\ ~_should_bypass_primary(circuit_breakers', run[t].target_name)

\* a profile without an ip: no wake and no Devices() query before discovery
NoIpNoWake(t) ==
    (/\ run[t].pc = "profile"
     /\ run'[t] /= run[t]
     /\ ~(HasProfile(registry, run[t].target_name)
            /\ registry[run[t].target_name].ip /= NoIp)) =>
        /\ run'[t].pc \in {"discovery", "failover"}
        /\ run'[t].calls = run[t].calls

\* C27: after a successful IP wake and a match in the re-queried device list the
\* run stages, plays and confirms without mDNS discovery, getInfo or addUser, and
\* a confirmation ends it with branch primary_ip_wakeup and a record_success;
\* without an ip there is no wake and no extra Devices() query
C27_IpWakeSkipsHandshake ==
    [][\A t \in Threads :
         StaysOffDiscovery(t) /\ IpWakeConfirmedEnds(t) /\ NoIpNoWake(t)]_vars

HasCachedIp(name) == HasProfile(registry, name) /\ registry[name].ip /= NoIp

\* C28: when mdns_discover_connect gives an incomplete result, the handshake gets
\* the endpoint of the registry profile that has an ip, with port 80 and cpath
\* /spotifyconnect/zeroconf where the profile has none; without such a profile the
\* run fails over with reason no_mdns and ends without getInfo or addUser
C28_IncompleteDiscovery ==
    [][\A t \in Threads :
         /\ (run[t].pc = "discovery" /\ run'[t] /= run[t]) =>
              /\ (run'[t].pc = "getinfo" /\ run'[t].endpoint /= MdnsEndpoint) =>
                   /\ HasCachedIp(run[t].target_name)
                   /\ LET p == registry[run[t].target_name]
                      IN run'[t].endpoint =
                           [ip |-> p.ip,
                            port |-> IF p.port = 0 THEN 80 ELSE p.port,
                            cpath |-> IF p.cpath = "" THEN "/spotifyconnect/zeroconf"
                                      ELSE p.cpath]
              /\ (run'[t].pc = "failover" /\ run'[t].reason = "no_mdns") =>
                   ~HasCachedIp(run[t].target_name)
              /\ (run'[t].pc = "getinfo" /\ ~HasCachedIp(run[t].target_name)) =>
                   run'[t].endpoint = MdnsEndpoint
         /\ (run[t].pc = "failover" /\ run[t].reason = "no_mdns" /\ run'[t] /= run[t]) =>
              /\ run'[t].pc = "done"
              /\ run'[t].calls["get_info"] = 0
              /\ run'[t].calls["add_user"] = 0]_vars

\* the handshake is about to use the profile's ip and cpath with the default port
C28_Witness ==
    \E t \in Threads :
        /\ run[t].pc = "getinfo"
        /\ run[t].endpoint = [ip |-> KnownIp, port |-> 80, cpath |-> "/zc2"]
        /\ registry[run[t].target_name].port = 0

\* C29: getInfo leads on to the access_token addUser whether it succeeded or not;
\* the blob_clientKey attempt is entered only from a failed access_token attempt
\* and is not repeated, so no addUser request follows a successful one and a run
\* sends at most two
C29_AddUserModes ==
    [][\A t \in Threads :
         LET r == run[t]
             q == run'[t]
         IN (q /= r) =>
              /\ (r.pc = "getinfo") => (q.pc = "token" /\ q.calls["add_user"] = 0)
              /\ (r.pc = "token") => q.pc \in {"adduser", "failover"}
              /\ (r.pc = "adduser") =>
                    /\ q.calls = Called(r.calls, "add_user")
                    /\ r.calls["add_user"] = 0
                    /\ IF q.auth_ok THEN q.pc = "pre_poll" ELSE q.pc = "adduser_blob"
              /\ (q.pc = "adduser_blob") => (r.pc = "adduser" /\ ~q.auth_ok)
              /\ (r.pc = "adduser_blob") =>
                    /\ q.pc \in {"pre_poll", "failover"}
                    /\ r.calls["add_user"] = 1
                    /\ q.calls["add_user"] \in {1, 2}
                    /\ q.auth_ok => q.calls["add_user"] = 2
              /\ (q.calls["add_user"] /= r.calls["add_user"] /\ q.pc /= "webapi_check") =>
                    r.pc \in {"adduser", "adduser_blob"}]_vars

\* getInfo failed, the access_token addUser succeeded, and no blob_clientKey
\* request was sent
C29_Witness ==
    \E t \in Threads :
        /\ run[t].pc = "pre_poll"
        /\ ~run[t].local_ok
        /\ run[t].auth_ok
        /\ run[t].calls["get_info"] = 1
        /\ run[t].calls["add_user"] = 1

\* C30: when the blob_clientKey attempt fails as well, or its credentials cannot
\* be produced, the run goes on to the cloud poll: no fallback, no record_failure;
\* the 2 s grace sleep is taken exactly when an addUser attempt succeeded
C30_FailedAddUserContinues ==
    [][\A t \in Threads :
         LET r == run[t]
             q == run'[t]
         IN /\ (r.pc = "adduser_blob" /\ q /= r) =>
                 /\ q.pc = "pre_poll"
                 /\ q.calls["record_failure"] = r.calls["record_failure"]
                 /\ q.calls["_failover"] = r.calls["_failover"]
                 /\ circuit_breakers' = circuit_breakers
            /\ (r.pc \in {"adduser", "adduser_blob"} /\ q.pc = "pre_poll") =>
                 q.now = (IF q.auth_ok THEN r.now + 20 ELSE r.now)
            /\ (r.pc = "pre_poll" /\ q /= r) => q.pc = "cloud_poll"]_vars

Complete(e) == e.ip /= "" /\ e.port > 0

\* C31: no profile comes from a DiscoveryResult without ip or port: what
\* discover_devices returns, caches and gives a status, and what
\* get_or_create_device_profile returns and adds to the targets, was resolved with
\* both; and a run has sent getInfo or addUser only to an endpoint that has both
C31_IncompleteNeverUsed ==
    /\ pk.last.ok =>
         /\ \A i \in DOMAIN pk.last.returned :
              /\ Complete(pk.last.returned[i])
              /\ \E j \in DOMAIN pk.last.results :
                   /\ Complete(pk.last.results[j])
                   /\ pk.last.results[j].ip = pk.last.returned[i].ip
                   /\ pk.last.results[j].port = pk.last.returned[i].port
                   /\ pk.last.results[j].instance_name = pk.last.returned[i].instance_name
         /\ \A j \in DOMAIN pk.last.results :
              ~Complete(pk.last.results[j]) =>
                 \A i \in DOMAIN pk.last.returned :
                    pk.last.returned[i].instance_name /= pk.last.results[j].instance_name
                       \/ pk.last.returned[i].ip /= pk.last.results[j].ip
    /\ \A i \in DOMAIN pk.discovery_cache.devices : Complete(pk.discovery_cache.devices[i])
    /\ \A n \in DOMAIN pk.device_status : Complete(pk.device_status[n])
    /\ (pk.lookup.discovered /\ ~Complete(pk.lookup.result)) =>
          pk.lookup.returned = NoProfile
    /\ (pk.lookup.discovered /\ pk.lookup.returned /= NoProfile) =>
          /\ pk.lookup.returned.ip = pk.lookup.result.ip
          /\ pk.lookup.returned.port = pk.lookup.result.port
    /\ \A n \in DOMAIN registry : n /= TargetK => Complete(registry[n])
    /\ \A t \in Threads :
          /\ (run[t].calls["get_info"] > 0 \/ run[t].calls["add_user"] > 0) =>
                Complete(run[t].endpoint)
          /\ run[t].pc \in {"getinfo", "token", "adduser", "adduser_blob"} =>
                Complete(run[t].endpoint)

\* a discovery that resolved one device without an ip and two with ip and port
C31_Witness ==
    /\ pk.last.ok
    /\ \E j \in DOMAIN pk.last.results : pk.last.results[j].ip = ""
    /\ Len(pk.last.returned) = 2
    /\ Len(pk.last.results) = 3

\* C38: a discover_devices call whose discovery raised returns [] and leaves
\* discovery_cache and device_status as they were; the next call, when it is not
\* forced and comes less than 300 s after the cached discovery, returns the
\* profiles that were cached before the failure, without discovering
C38_FailedDiscoveryKeepsCache ==
    [][(pk'.last.called /\ pk'.calls /= pk.calls) =>
         /\ (pk'.last.discover_all /\ ~pk'.last.ok) =>
               /\ pk'.last.returned = <<>>
               /\ pk'.discovery_cache = pk.discovery_cache
               /\ pk'.device_status = pk.device_status
         /\ (/\ pk.last.discover_all /\ ~pk.last.ok
             /\ pk.last.cache_before.has
             /\ ~pk'.last.force_refresh
             /\ pk'.last.current_time - pk.last.cache_before.last_discovery < 300) =>
               /\ pk'.last.returned = pk.last.cache_before.devices
               /\ ~pk'.last.discover_all]_vars

\* a forced call whose discovery raised while two profiles were cached
C38_Witness ==
    /\ pk.last.called
    /\ pk.last.force_refresh
    /\ pk.last.discover_all
    /\ ~pk.last.ok
    /\ Len(pk.last.cache_before.devices) = 2
    /\ pk.discovery_cache.devices = pk.last.cache_before.devices
    /\ pk.device_status /= <<>>

PickPcs == {"webapi_check", "ipw_devices", "cloud_poll"}

\* C32: Play is issued only by the step that follows a stage_device whose Transfer
\* returned, in the same run and for the same device id, and that id belongs to
\* the device _pick_device chose from a Devices() response of this run
C32_PlayAfterTransfer ==
    [][\A t \in Threads :
         LET r == run[t]
             q == run'[t]
         IN (q /= r /\ r.pc \notin {"idle", "done"}) =>
              \* Play is issued by the play steps alone, for the device that was picked
              /\ (q.args.play /= r.args.play \/ q.calls["Play"] /= r.calls["Play"]) =>
                    r.pc \in PlayPcs
              /\ (r.pc \in PlayPcs) =>
                    /\ q.calls["Play"] = Called(r.calls, "Play")["Play"]
                    /\ q.args.play = r.cloud_device.id
                    /\ q.args.play = r.args.transfer
                    /\ r.cloud_device /= NoDevice
                    /\ r.state = "STAGED"
              \* a play step is entered only from a stage step whose Transfer returned
              /\ (q.pc \in PlayPcs) =>
                    /\ r.pc \in StagePcs
                    /\ q.calls["Transfer"] >= 1
                    /\ q.args.transfer = r.cloud_device.id
                    /\ q.cloud_device = r.cloud_device
                    /\ q.state = "STAGED"
                    /\ q.now = r.now + 2
              \* the device is one that _pick_device chose from a response of this run
              /\ (q.cloud_device /= r.cloud_device /\ q.cloud_device /= NoDevice) =>
                    /\ r.pc \in PickPcs
                    /\ q.calls["Devices"] >= 1
                    /\ \E devices \in DevicesResponses :
                         /\ q.cloud_device \in Range(devices)
                         /\ q.cloud_device = _pick_device(devices, r.target_name, registry)
              /\ (r.pc \in StagePcs \cup PlayPcs) => r.cloud_device /= NoDevice]_vars

\* Play has been issued on the main path for the device the poll found
C32_Witness ==
    \E t \in Threads :
        /\ run[t].pc = "confirm"
        /\ run[t].args.play = "D1"
        /\ run[t].args.transfer = "D1"
        /\ run[t].cloud_device.id = "D1"
        /\ run[t].calls["Transfer"] = 2

\* C33: a run issues Transfer and Play on one path only: when the IP wake-up path or
\* the main path reaches its stage_device, the run has issued no Transfer and no
\* Play before
C33_OnePathStages ==
    [][\A t \in Threads :
         (run[t].pc \in {"ipw_stage", "stage"} /\ run'[t] /= run[t]) =>
            /\ run[t].calls["Transfer"] = 0
            /\ run[t].calls["Play"] = 0
            /\ run'[t].calls["Transfer"] = 1]_vars

\* C34: a run calls record_failure at most once: once when it ends by raising the
\* terminal error, a run bypassed by the open breaker included, and once when an
\* exception sent it to the fallback; never when an explicit fail-over ended it
\* with branch fallback, and never otherwise
C34_RecordFailureOnce ==
    \A t \in Threads :
        LET r == run[t]
            by_exception == r.region = "handler"
        IN /\ r.calls["record_failure"] <= 1
           /\ (r.pc = "done" /\ r.outcome = "raised") => r.calls["record_failure"] = 1
           /\ (r.pc \in {"failover", "done"} /\ by_exception) =>
                 r.calls["record_failure"] = 1
           /\ (r.pc = "done" /\ r.outcome = "returned" /\ ~by_exception) =>
                 r.calls["record_failure"] = 0
           /\ (r.pc = "done" /\ r.branch = <<"fallback">> /\ ~by_exception) =>
                 /\ r.calls["_failover"] >= 1
                 /\ r.calls["record_failure"] = 0

\* a run bypassed by the open breaker has raised the terminal error
C34_Witness ==
    \E t \in Threads :
        /\ run[t].pc = "done"
        /\ run[t].outcome = "raised"
        /\ run[t].bypassed
        /\ run[t].reason = "circuit_breaker_open"
        /\ run[t].calls["record_failure"] = 1

PrimaryBranches == {<<"primary">>, <<"primary_ip_wakeup">>}

\* C35: record_success is called by the step that ends a run with branch primary or
\* primary_ip_wakeup and by no other; a run that ends otherwise has not called it,
\* and a step without it leaves every open breaker open with its failure count,
\* so the fast path, which never touches a breaker, leaves an open breaker open
C35_RecordSuccessOnlyPrimary ==
    [][\A t \in Threads :
         LET r == run[t]
             q == run'[t]
         IN (q /= r /\ r.pc \notin {"idle", "done"}) =>
              /\ (q.calls["record_success"] /= r.calls["record_success"]) =>
                    /\ q.pc = "done"
                    /\ q.outcome = "returned"
                    /\ q.branch \in PrimaryBranches
                    /\ r.calls["record_success"] = 0
                    /\ circuit_breakers'[q.target_name].failure_count = 0
                    /\ ~circuit_breakers'[q.target_name].is_open
              /\ (q.pc = "done") =>
                    (q.calls["record_success"] = 1 <=> q.branch \in PrimaryBranches)
              /\ (q.pc = "done" /\ q.branch \notin PrimaryBranches) =>
                    q.calls["record_success"] = 0
              /\ (q.calls["record_success"] = r.calls["record_success"]) =>
                    \A n \in DOMAIN circuit_breakers :
                       /\ circuit_breakers'[n].failure_count >= circuit_breakers[n].failure_count
                       /\ circuit_breakers[n].is_open => circuit_breakers'[n].is_open
              /\ (r.pc \in {"webapi_check", "webapi_stage", "webapi_play"}) =>
                    circuit_breakers' = circuit_breakers]_vars

\* a fast-path success for a target whose breaker is open
C35_Witness ==
    \E t \in Threads :
        /\ run[t].pc = "done"
        /\ run[t].branch = <<"webapi_direct">>
        /\ run[t].calls["Play"] = 1
        /\ run[t].target_name \in DOMAIN circuit_breakers
        /\ circuit_breakers[run[t].target_name].is_open
        /\ circuit_breakers[run[t].target_name].failure_count >= 3

\* the normalized names a profile matches
NormalizedNames(p) == {Normalize(n) : n \in get_all_matching_names(p)}

\* spotify_device_names grew by appending, and each new name was matched already
LearnedWithin(p, q) ==
    /\ Len(q.spotify_device_names) >= Len(p.spotify_device_names)
    /\ SubSeq(q.spotify_device_names, 1, Len(p.spotify_device_names)) = p.spotify_device_names
    /\ \A i \in (Len(p.spotify_device_names) + 1)..Len(q.spotify_device_names) :
          Normalize(q.spotify_device_names[i]) \in NormalizedNames(p)
    /\ (q.instance_name = p.instance_name) => NormalizedNames(q) = NormalizedNames(p)

\* C36: every name a run appends to spotify_device_names normalizes to a name the
\* profile matched before, so a step that learns no instance_name leaves the
\* profile's normalized matching names as they were
C36_LearningKeepsNames ==
    [][/\ \A n \in DOMAIN registry : LearnedWithin(registry[n], registry'[n])
       /\ \A t \in Threads :
            (run[t].pc \notin {"idle", "done"}) =>
               LearnedWithin(run[t].local_target, run'[t].local_target)]_vars

\* the profile has learned a cloud name spelled unlike any name it had
C36_Witness ==
    /\ TargetK \in DOMAIN registry
    /\ registry[TargetK].spotify_device_names = << <<"k", " ">> >>
    /\ <<"k", " ">> \notin {registry[TargetK].name, registry[TargetK].instance_name}

\* C37: for a target without a registry profile, or whose profile has no ip,
\* _failover does not call the alternate-transport fallback: it sets branch
\* failed:<reason>, adds the fallback error to the metrics and raises; when the
\* fallback is called, it is called with the ip of the target's registry profile
C37_NoIpNoFallback ==
    [][\A t \in Threads :
         LET r == run[t]
             q == run'[t]
             has_ip == /\ r.target_name \in DOMAIN registry
                       /\ registry[r.target_name].ip /= ""
         IN /\ (r.pc = "failover" /\ q /= r) =>
                 /\ q.calls["_failover"] >= 1
                 /\ ~has_ip =>
                      /\ q.calls["airplay_fallback"] = r.calls["airplay_fallback"]
                      /\ q.args.target_ips = r.args.target_ips
                      /\ q.branch = <<"failed:", r.reason>>
                      /\ q.errors = Append(r.errors, <<"Fallback failed", r.reason>>)
                      /\ q.pc = "done"
                      /\ q.outcome = "raised"
                 /\ has_ip =>
                      /\ q.calls["airplay_fallback"] >= 1
                      /\ q.args.target_ips = <<registry[r.target_name].ip>>
            /\ (r.pc /= "failover" /\ r.pc \notin {"idle", "done"}) =>
                 /\ q.calls["airplay_fallback"] = r.calls["airplay_fallback"]
                 /\ q.args.target_ips = r.args.target_ips]_vars

\* _failover has raised for a target that has no registry profile
C37_Witness ==
    \E t \in Threads :
        /\ run[t].pc = "done"
        /\ run[t].outcome = "raised"
        /\ run[t].target_name \notin DOMAIN registry
        /\ run[t].branch = <<"failed:", "no_mdns">>
        /\ run[t].calls["_failover"] = 1
        /\ run[t].calls["airplay_fallback"] = 0

\* the place of a state in UNKNOWN -> DISCOVERED -> ... -> PLAYING
StateRank(s) ==
    CASE s = "UNKNOWN" -> 0
      [] s = "DISCOVERED" -> 1
      [] s = "LOCAL_AWAKE" -> 2
      [] s = "LOGGED_IN" -> 3
      [] s = "CLOUD_VISIBLE" -> 4
      [] s = "STAGED" -> 5
      [] s = "PLAYING" -> 6
      [] OTHER -> 7             \* DEEP_SLEEP_SUSPECTED, the terminal-failure label

\* C39: within a run the state never moves backwards along UNKNOWN, DISCOVERED,
\* LOCAL_AWAKE, LOGGED_IN, CLOUD_VISIBLE, STAGED, PLAYING, and it is LOGGED_IN
\* when the cloud poll starts after a successful addUser
C39_StateAdvances ==
    [][\A t \in Threads :
         LET r == run[t]
             q == run'[t]
         IN (r.pc \notin {"idle", "done"}) =>
              /\ StateRank(q.state) >= StateRank(r.state)
              /\ (r.pc = "pre_poll" /\ q.pc = "cloud_poll" /\ r.auth_ok) =>
                    q.state = "LOGGED_IN"]_vars
====
